---- MODULE Spec2Model ----
(***************************************************************************)
(* A model of skua's capability validator (skua/config/validation.py,      *)
(* skua/config/resources.py), of its image build and drift detection       *)
(* (skua/docker.py), of the per-project image customization                *)
(* (skua/project_adapt.py) and of the commands that drive them             *)
(* (skua/commands/build.py, run.py, adapt.py, remove.py).                  *)
(*                                                                         *)
(* The module holds several specifications over one set of variables.      *)
(* Each specification moves only its own variables; the others keep the    *)
(* value Idle.                                                             *)
(*   SpecValidate  the validator, applied to every Environment and         *)
(*                 SecurityProfile                                         *)
(*   SpecAdapt     image requests applied to one project, one after the    *)
(*                 other                                                   *)
(*   SpecHash      the build inputs changed one at a time, the fingerprint *)
(*                 computed after each change                              *)
(*   SpecImage     an image built, replaced or removed while the build     *)
(*                 inputs change, and image_matches_build_context asked    *)
(*   SpecBuild     build_image calls run one after the other, any step of  *)
(*                 a call failing                                          *)
(*   SpecConcurrentBuild  two build_image calls for two tags, interleaved  *)
(*   SpecEnvironment, SpecSecurity  the functions of one Environment, of   *)
(*                 one SecurityProfile                                     *)
(*   SpecProject   validate_project on every Environment and               *)
(*                 SecurityProfile                                         *)
(*   SpecDockerfile  generate_dockerfile called several times              *)
(*   SpecCmd       one of skua build, skua run, skua adapt run on a        *)
(*                 configuration and on the images earlier commands left   *)
(*   SpecName      the image names derived for every base name, agent and  *)
(*                 project, and for two projects of one skua build         *)
(*   SpecEncode    the bytes fed to the hasher for two tuples of inputs    *)
(*   SpecAdaptCmd  skua adapt run on a project and its request file        *)
(*   SpecRemove    skua remove run on a project whose container starts     *)
(*                 and stops                                               *)
(*   SpecTransport _configure_remote_docker_transport, step by step        *)
(***************************************************************************)
EXTENDS Integers, Sequences, FiniteSets, TLC

VARIABLES
    environment,   \* SpecValidate: the Environment under validation
    security,      \* SpecValidate: the SecurityProfile under validation
    result,        \* SpecValidate: the ValidationResult of the last check run
    image,         \* SpecAdapt: project.image, the stored customization
    applied,       \* SpecAdapt: the last apply_image_request_to_project call
    host,          \* SpecHash: the build inputs as they are now
    computed,      \* SpecHash: the last fingerprint computed, and from what
    previous,      \* SpecHash: the fingerprint computed before that one
    edits,         \* SpecHash: how many times the inputs were changed
    registry,      \* SpecImage: docker on this host and the image under the tag
    matched,       \* SpecImage: the last image_matches_build_context call
    built,         \* SpecImage: the last build_image call for the tag
    ctx,           \* SpecBuild: the directory container_dir/.build-context
    call,          \* SpecBuild: the build_image call of each caller
    config,        \* SpecCmd: the configuration store (global.yaml, projects)
    images,        \* SpecCmd: the images docker holds, by name
    ran,           \* SpecCmd: the command that ran and what it did
    generated,     \* SpecDockerfile: the generate_dockerfile calls made so far
    named,         \* SpecName: the last image name derived, and from what
    encoded,       \* SpecEncode: two tuples of build inputs and their bytes
    adapting,      \* SpecAdaptCmd: the project, its request file, the steps taken
    removal,       \* SpecRemove: the project store, the container, the steps taken
    transport      \* SpecTransport: DOCKER_HOST, the SSH wrapper, the probes made

validateVars == <<environment, security, result>>
adaptVars    == <<image, applied>>
hashVars     == <<host, computed, previous, edits>>
imageVars    == <<registry, matched, built>>
buildVars    == <<ctx, call>>
cmdVars      == <<config, images, ran>>
dockerfileVars == <<generated>>
laterVars    == <<named, encoded, adapting, removal, transport>>

vars == <<validateVars, adaptVars, hashVars, imageVars, buildVars, cmdVars, dockerfileVars, laterVars>>

\* The variables each specification leaves alone.
notValidate == <<adaptVars, hashVars, imageVars, buildVars, cmdVars, dockerfileVars, laterVars>>
notAdapt    == <<validateVars, hashVars, imageVars, buildVars, cmdVars, dockerfileVars, laterVars>>
notHash     == <<validateVars, adaptVars, imageVars, buildVars, cmdVars, dockerfileVars, laterVars>>
notImage    == <<validateVars, adaptVars, buildVars, cmdVars, dockerfileVars, laterVars>>
notBuild    == <<validateVars, adaptVars, hashVars, imageVars, cmdVars, dockerfileVars, laterVars>>
notCmd      == <<validateVars, adaptVars, hashVars, imageVars, buildVars, dockerfileVars, laterVars>>
notDockerfile == <<validateVars, adaptVars, hashVars, imageVars, buildVars, cmdVars, laterVars>>
earlierVars == <<validateVars, adaptVars, hashVars, imageVars, buildVars, cmdVars, dockerfileVars>>
notName      == <<earlierVars, encoded, adapting, removal, transport>>
notEncode    == <<earlierVars, named, adapting, removal, transport>>
notAdaptCmd  == <<earlierVars, named, encoded, removal, transport>>
notRemove    == <<earlierVars, named, encoded, adapting, transport>>
notTransport == <<earlierVars, named, encoded, adapting, removal>>

\* The value of a variable that the running specification does not use.
Idle == "idle"

IdleValidate == environment = Idle /\ security = Idle /\ result = Idle
IdleAdapt    == image = Idle /\ applied = Idle
IdleHash     == host = Idle /\ computed = Idle /\ previous = Idle /\ edits = Idle
IdleImage    == registry = Idle /\ matched = Idle /\ built = Idle
IdleBuild    == ctx = Idle /\ call = Idle
IdleCmd      == config = Idle /\ images = Idle /\ ran = Idle
IdleDockerfile == generated = Idle
IdleName     == named = Idle
IdleEncode   == encoded = Idle
IdleAdaptCmd == adapting = Idle
IdleRemove   == removal = Idle
IdleTransport == transport = Idle
IdleLater    == IdleName /\ IdleEncode /\ IdleAdaptCmd /\ IdleRemove /\ IdleTransport
IdleEarlier  == IdleValidate /\ IdleAdapt /\ IdleHash /\ IdleImage /\ IdleBuild /\ IdleCmd /\ IdleDockerfile

(***************************************************************************)
(* Resource model: skua/config/resources.py                                *)
(***************************************************************************)

\* Environment: the fields capabilities() and the validators read.
Environments ==
    [ mode              : {"unmanaged", "managed"},
      driver            : {"docker", "compose", "kubernetes"},
      network_mode      : {"none", "bridge", "internal", "host"},
      container_runtime : {"", "runsc", "kata"},
      docker_cleanup    : {"ephemeral", "persistent"},
      compose_cleanup   : {"ephemeral", "persistent"} ]

\* SecurityProfile: the fields required_capabilities() and the validators read.
SecurityProfiles ==
    [ outbound      : {"unrestricted", "none", "proxy"},
      sudo          : BOOLEAN,
      install_mode  : {"unrestricted", "advisory", "verified", "none"},
      audit_mode    : {"none", "advisory", "trusted"},
      updates_mode  : {"disabled", "suggest", "auto"},
      updates_source: {"audit", "proxy"} ]

\* Network capabilities where host networking also counts as isolation.
NetworkCapabilities_HostIsolated(env) ==
    IF env.network_mode = "bridge" THEN {"network.internet", "network.isolation"}
    ELSE IF env.network_mode = "internal" THEN {"network.isolation", "network.internal"}
    ELSE IF env.network_mode = "none" THEN {"network.isolation", "network.internal"}
    ELSE IF env.network_mode = "host" THEN {"network.internet", "network.isolation"}
    ELSE {}

\* Environment.capabilities
NetworkCapabilities(env) ==
    IF env.network_mode = "bridge" THEN {"network.internet", "network.isolation"}
    ELSE IF env.network_mode = "internal" THEN {"network.isolation", "network.internal"}
    ELSE IF env.network_mode = "none" THEN {"network.isolation", "network.internal"}
    ELSE IF env.network_mode = "host" THEN {"network.internet"}
    ELSE {}

Cleanup(env) ==
    IF env.driver = "docker" THEN env.docker_cleanup
    ELSE IF env.driver = "compose" THEN env.compose_cleanup
    ELSE ""

\* Environment.capabilities where every runtime override counts as gVisor.
capabilities_AnyRuntime(env) ==
    NetworkCapabilities(env)
    \cup (IF env.mode = "managed"
          THEN {"sidecar", "trusted.proxy", "trusted.log", "trusted.mcp"}
          ELSE {})
    \cup {"container.sudo", "container.no-sudo"}
    \cup (IF env.driver \in {"docker", "compose"} /\ env.container_runtime # ""
          THEN {"isolation.gvisor"}
          ELSE {})
    \cup (IF Cleanup(env) = "persistent" /\ env.driver \in {"docker", "compose"}
          THEN {"audit.docker-diff"}
          ELSE {})

capabilities(env) ==
    NetworkCapabilities(env)
    \cup (IF env.mode = "managed"
          THEN {"sidecar", "trusted.proxy", "trusted.log", "trusted.mcp"}
          ELSE {})
    \cup {"container.sudo", "container.no-sudo"}
    \cup (IF env.driver \in {"docker", "compose"} /\ env.container_runtime = "runsc"
          THEN {"isolation.gvisor"}
          ELSE {})
    \cup (IF Cleanup(env) = "persistent" /\ env.driver \in {"docker", "compose"}
          THEN {"audit.docker-diff"}
          ELSE {})

\* A required_capabilities that asks for the no-sudo container of a profile
\* without sudo.
required_capabilities_Sudo(sec) ==
    (IF sec.outbound = "unrestricted" THEN {"network.internet"}
     ELSE IF sec.outbound = "none" THEN {"network.isolation"}
     ELSE IF sec.outbound = "proxy" THEN {"trusted.proxy", "network.internal"}
     ELSE {})
    \cup (IF sec.audit_mode = "trusted" THEN {"trusted.log"} ELSE {})
    \cup (IF sec.install_mode = "verified" THEN {"trusted.proxy"} ELSE {})
    \cup (IF sec.updates_source = "proxy" THEN {"trusted.log"} ELSE {})
    \cup (IF sec.sudo THEN {} ELSE {"container.no-sudo"})

\* SecurityProfile.required_capabilities
required_capabilities(sec) ==
    (IF sec.outbound = "unrestricted" THEN {"network.internet"}
     ELSE IF sec.outbound = "none" THEN {"network.isolation"}
     ELSE IF sec.outbound = "proxy" THEN {"trusted.proxy", "network.internal"}
     ELSE {})
    \cup (IF sec.audit_mode = "trusted" THEN {"trusted.log"} ELSE {})
    \cup (IF sec.install_mode = "verified" THEN {"trusted.proxy"} ELSE {})
    \cup (IF sec.updates_source = "proxy" THEN {"trusted.log"} ELSE {})

(***************************************************************************)
(* Validator: skua/config/validation.py                                    *)
(***************************************************************************)

\* The capability tokens in the order Python's sorted() gives them.
CapabilityOrder ==
    << "audit.docker-diff", "container.no-sudo", "container.sudo",
       "isolation.gvisor", "network.internal", "network.internet",
       "network.isolation", "sidecar", "trusted.log", "trusted.mcp",
       "trusted.proxy" >>

\* sorted(caps)
sorted(caps) ==
    LET keep(c) == c \in caps
    IN  SelectSeq(CapabilityOrder, keep)

\* _capability_hint: the remediation hint of a token, "" when it has none.
capability_hint(cap) ==
    CASE cap = "trusted.proxy"     -> "managed-mode"
      [] cap = "trusted.log"       -> "managed-mode"
      [] cap = "trusted.mcp"       -> "managed-mode-mcp"
      [] cap = "network.internet"  -> "network-bridge-or-host"
      [] cap = "network.isolation" -> "network-bridge-internal-or-none"
      [] cap = "network.internal"  -> "network-internal-or-none"
      [] cap = "sidecar"           -> "managed-mode"
      [] cap = "audit.docker-diff" -> "cleanup-persistent"
      [] OTHER                     -> ""

\* ValidationResult()
EmptyResult == [errors |-> <<>>, warnings |-> <<>>]

\* The message result.error() receives for one missing capability.
MissingCapabilityError(cap, env) ==
    [ rule    |-> "missing-capability",
      cap     |-> cap,
      mode    |-> env.mode,
      driver  |-> env.driver,
      network |-> env.network_mode,
      hint    |-> capability_hint(cap) ]

\* The loop of validate_security_environment: one result.error() per element.
RECURSIVE ReportMissing(_, _, _)
ReportMissing(caps, env, errors) ==
    IF caps = <<>> THEN errors
    ELSE ReportMissing(Tail(caps), env,
                       Append(errors, MissingCapabilityError(Head(caps), env)))

\* A validate_security_environment that forgets to subtract what is provided.
validate_security_environment_NoSubtract(sec, env) ==
    [ errors   |-> ReportMissing(sorted(required_capabilities(sec)), env, <<>>),
      warnings |-> <<>> ]

validate_security_environment(sec, env) ==
    LET required == required_capabilities(sec)
        provided == capabilities(env)
        missing  == required \ provided
    IN  [ errors   |-> ReportMissing(sorted(missing), env, <<>>),
          warnings |-> <<>> ]

\* A validate_environment_internal that rejects an ignored runtime override.
validate_environment_internal_RuntimeError(env) ==
    [ errors   |->
          (IF env.mode = "managed" /\ env.driver = "docker"
           THEN << [rule |-> "managed-requires-compose-or-kubernetes"] >>
           ELSE <<>>)
          \o (IF env.container_runtime # "" /\ env.driver \notin {"docker", "compose"}
              THEN << [rule |-> "container-runtime-ignored"] >>
              ELSE <<>>),
      warnings |->
          IF /\ env.mode = "unmanaged"
             /\ env.driver = "docker"
             /\ env.network_mode = "internal"
          THEN << [rule |-> "internal-behaves-as-none"] >>
          ELSE <<>> ]

\* validate_environment_internal
validate_environment_internal(env) ==
    [ errors   |->
          IF env.mode = "managed" /\ env.driver = "docker"
          THEN << [rule |-> "managed-requires-compose-or-kubernetes"] >>
          ELSE <<>>,
      warnings |->
          (IF env.container_runtime # "" /\ env.driver \notin {"docker", "compose"}
           THEN << [rule |-> "container-runtime-ignored"] >>
           ELSE <<>>)
          \o (IF /\ env.mode = "unmanaged"
                 /\ env.driver = "docker"
                 /\ env.network_mode = "internal"
              THEN << [rule |-> "internal-behaves-as-none"] >>
              ELSE <<>>) ]

\* A validate_security_internal whose first rule ignores agent.sudo.
validate_security_internal_VerifiedAlways(sec) ==
    [ errors   |->
          (IF sec.install_mode = "verified"
           THEN << [rule |-> "verified-requires-no-sudo"] >>
           ELSE <<>>)
          \o (IF sec.install_mode \in {"advisory", "unrestricted"} /\ ~sec.sudo
              THEN << [rule |-> "install-requires-sudo"] >>
              ELSE <<>>)
          \o (IF sec.audit_mode = "trusted" /\ sec.outbound # "proxy"
              THEN << [rule |-> "trusted-audit-requires-proxy"] >>
              ELSE <<>>)
          \o (IF sec.updates_source = "proxy" /\ sec.audit_mode # "trusted"
              THEN << [rule |-> "proxy-source-requires-trusted-audit"] >>
              ELSE <<>>),
      warnings |->
          (IF sec.install_mode = "none" /\ sec.sudo
           THEN << [rule |-> "install-none-with-sudo"] >>
           ELSE <<>>)
          \o (IF sec.outbound = "proxy" /\ sec.sudo
              THEN << [rule |-> "proxy-with-sudo"] >>
              ELSE <<>>)
          \o (IF sec.updates_mode # "disabled" /\ sec.audit_mode = "none"
              THEN << [rule |-> "updates-without-audit"] >>
              ELSE <<>>) ]

\* validate_security_internal
validate_security_internal(sec) ==
    [ errors   |->
          (IF sec.install_mode = "verified" /\ sec.sudo
           THEN << [rule |-> "verified-requires-no-sudo"] >>
           ELSE <<>>)
          \o (IF sec.install_mode \in {"advisory", "unrestricted"} /\ ~sec.sudo
              THEN << [rule |-> "install-requires-sudo"] >>
              ELSE <<>>)
          \o (IF sec.audit_mode = "trusted" /\ sec.outbound # "proxy"
              THEN << [rule |-> "trusted-audit-requires-proxy"] >>
              ELSE <<>>)
          \o (IF sec.updates_source = "proxy" /\ sec.audit_mode # "trusted"
              THEN << [rule |-> "proxy-source-requires-trusted-audit"] >>
              ELSE <<>>),
      warnings |->
          (IF sec.install_mode = "none" /\ sec.sudo
           THEN << [rule |-> "install-none-with-sudo"] >>
           ELSE <<>>)
          \o (IF sec.outbound = "proxy" /\ sec.sudo
              THEN << [rule |-> "proxy-with-sudo"] >>
              ELSE <<>>)
          \o (IF sec.updates_mode # "disabled" /\ sec.audit_mode = "none"
              THEN << [rule |-> "updates-without-audit"] >>
              ELSE <<>>) ]

\* validate_agent_security
validate_agent_security(agent, sec) ==
    [ errors   |-> <<>>,
      warnings |->
          IF agent.login_command # "" /\ sec.outbound = "none"
          THEN << [rule |-> "login-needs-network"] >>
          ELSE <<>> ]

\* A validate_project that returns at the first check that reports an error.
validate_project_StopsEarly(project, env, sec, agent) ==
    LET env_int_result == validate_environment_internal(env)
        sec_result     == validate_security_internal(sec)
        env_result     == validate_security_environment(sec, env)
        agent_result   == validate_agent_security(agent, sec)
    IN  IF env_int_result.errors # <<>> THEN env_int_result
        ELSE IF sec_result.errors # <<>>
        THEN [ errors   |-> sec_result.errors,
               warnings |-> env_int_result.warnings \o sec_result.warnings ]
        ELSE [ errors   |-> env_result.errors \o agent_result.errors,
               warnings |-> env_int_result.warnings \o sec_result.warnings
                            \o env_result.warnings \o agent_result.warnings
                            \o (IF project.directory = ""
                                THEN << [rule |-> "no-directory"] >>
                                ELSE <<>>) ]

\* validate_project: the four checks in this order, then the project's own.
validate_project(project, env, sec, agent) ==
    LET env_int_result == validate_environment_internal(env)
        sec_result     == validate_security_internal(sec)
        env_result     == validate_security_environment(sec, env)
        agent_result   == validate_agent_security(agent, sec)
    IN  [ errors   |-> env_int_result.errors \o sec_result.errors
                       \o env_result.errors \o agent_result.errors,
          warnings |-> env_int_result.warnings \o sec_result.warnings
                       \o env_result.warnings \o agent_result.warnings
                       \o (IF project.directory = ""
                           THEN << [rule |-> "no-directory"] >>
                           ELSE <<>>) ]

\* ValidationResult.valid
valid(res) == Len(res.errors) = 0

(***************************************************************************)
(* SpecValidate: every Environment and SecurityProfile, and the checks     *)
(* applied to them.                                                        *)
(***************************************************************************)

NoResult == [op |-> "none", errors |-> <<>>, warnings |-> <<>>]

InitValidate ==
    /\ environment \in Environments
    /\ security \in SecurityProfiles
    /\ result = NoResult
    /\ IdleAdapt
    /\ IdleHash
    /\ IdleImage
    /\ IdleBuild
    /\ IdleCmd
    /\ IdleDockerfile
    /\ IdleLater

ValidateSecurityEnvironment ==
    /\ result.op = "none"
    /\ LET r == validate_security_environment(security, environment)
       IN  result' = [ op       |-> "validate_security_environment",
                       errors   |-> r.errors,
                       warnings |-> r.warnings ]
    /\ UNCHANGED <<environment, security>>
    /\ UNCHANGED notValidate

NextValidate ==
    \/ ValidateSecurityEnvironment

SpecValidate == InitValidate /\ [][NextValidate]_vars

(***************************************************************************)
(* SpecSecurity: every SecurityProfile, and the functions of it alone.     *)
(***************************************************************************)

InitSecurity ==
    /\ environment = Idle
    /\ security \in SecurityProfiles
    /\ result = NoResult
    /\ IdleAdapt
    /\ IdleHash
    /\ IdleImage
    /\ IdleBuild
    /\ IdleCmd
    /\ IdleDockerfile
    /\ IdleLater

ValidateSecurityInternal ==
    /\ result.op = "none"
    /\ LET r == validate_security_internal(security)
       IN  result' = [ op       |-> "validate_security_internal",
                       errors   |-> r.errors,
                       warnings |-> r.warnings ]
    /\ UNCHANGED <<environment, security>>
    /\ UNCHANGED notValidate

RequiredCapabilities ==
    /\ result.op = "none"
    /\ result' = [ op   |-> "required_capabilities",
                   caps |-> required_capabilities(security) ]
    /\ UNCHANGED <<environment, security>>
    /\ UNCHANGED notValidate

NextSecurity ==
    \/ ValidateSecurityInternal
    \/ RequiredCapabilities

SpecSecurity == InitSecurity /\ [][NextSecurity]_vars

(***************************************************************************)
(* SpecEnvironment: every Environment, and the functions of it alone.      *)
(***************************************************************************)

InitEnvironment ==
    /\ environment \in Environments
    /\ security = Idle
    /\ result = NoResult
    /\ IdleAdapt
    /\ IdleHash
    /\ IdleImage
    /\ IdleBuild
    /\ IdleCmd
    /\ IdleDockerfile
    /\ IdleLater

ValidateEnvironmentInternal ==
    /\ result.op = "none"
    /\ LET r == validate_environment_internal(environment)
       IN  result' = [ op       |-> "validate_environment_internal",
                       errors   |-> r.errors,
                       warnings |-> r.warnings ]
    /\ UNCHANGED <<environment, security>>
    /\ UNCHANGED notValidate

Capabilities ==
    /\ result.op = "none"
    /\ result' = [ op   |-> "capabilities",
                   caps |-> capabilities(environment) ]
    /\ UNCHANGED <<environment, security>>
    /\ UNCHANGED notValidate

NextEnvironment ==
    \/ ValidateEnvironmentInternal
    \/ Capabilities

SpecEnvironment == InitEnvironment /\ [][NextEnvironment]_vars

(***************************************************************************)
(* SpecProject: validate_project on every Environment and SecurityProfile, *)
(* for a project with or without a directory and a repo URL, and an agent  *)
(* with or without a login command.                                        *)
(***************************************************************************)

\* Project: the fields validate_project reads, and repo.
Projects ==
    [ directory : {"", "/work"},
      repo      : {"", "https://github.com/u/r.git"} ]

\* AgentConfig: the field validate_agent_security reads.
Agents == [ login_command : {"", "claude login"} ]

ValidateProject ==
    /\ result.op = "none"
    /\ \E project \in Projects, agent \in Agents :
         LET r == validate_project(project, environment, security, agent)
         IN  result' = [ op       |-> "validate_project",
                         project  |-> project,
                         agent    |-> agent,
                         errors   |-> r.errors,
                         warnings |-> r.warnings,
                         valid    |-> valid(r) ]
    /\ UNCHANGED <<environment, security>>
    /\ UNCHANGED notValidate

NextProject ==
    \/ ValidateProject

SpecProject == InitValidate /\ [][NextProject]_vars

(***************************************************************************)
(* C1: validate_security_environment emits exactly one error per token of  *)
(* required_capabilities(s) minus capabilities(e), each error naming that  *)
(* token, and none when every required token is provided; network.mode     *)
(* none with outbound unrestricted (and nothing else demanded) gives       *)
(* exactly one error, about the internet capability.                       *)
(***************************************************************************)
ErrorsNaming(cap) ==
    {i \in 1..Len(result.errors) : result.errors[i].cap = cap}

C1_OneErrorPerMissingToken ==
    result.op = "validate_security_environment" =>
        LET missing == required_capabilities(security) \ capabilities(environment)
        IN  /\ Len(result.errors) = Cardinality(missing)
            /\ \A cap \in missing : Cardinality(ErrorsNaming(cap)) = 1
            /\ \A i \in 1..Len(result.errors) : result.errors[i].cap \in missing
            /\ (required_capabilities(security) \subseteq capabilities(environment)
                    => result.errors = <<>>)
            /\ ( /\ environment.network_mode = "none"
                 /\ environment.mode = "unmanaged"
                 /\ security.outbound = "unrestricted"
                 /\ security.audit_mode # "trusted"
                 /\ security.install_mode # "verified"
                 /\ security.updates_source # "proxy"
                 => /\ Len(result.errors) = 1
                    /\ result.errors[1].cap = "network.internet" )

\* Two tokens are missing at once and both are reported.
C1_Witness ==
    /\ result.op = "validate_security_environment"
    /\ environment.network_mode = "none"
    /\ environment.mode = "unmanaged"
    /\ security.outbound = "unrestricted"
    /\ security.audit_mode = "trusted"
    /\ Len(result.errors) = 2

(***************************************************************************)
(* Image requests: skua/project_adapt.py                                   *)
(*                                                                         *)
(* A string is a sequence of characters, so that str.strip() is computed   *)
(* and not assumed.  A request value that is absent (Python's None, or a   *)
(* key the YAML file does not hold) is Absent.                             *)
(***************************************************************************)

\* The longest list of a request key and the highest image version reached.
MaxListLen == 2
MaxVersion == 3

Absent == [is |-> "none"]
Given(v) == [is |-> "value", v |-> v]

\* str.strip(): the characters removed at both ends.
Whitespace == {" ", "\n", "\t"}

RECURSIVE lstrip(_)
lstrip(s) == IF s # <<>> /\ Head(s) \in Whitespace THEN lstrip(Tail(s)) ELSE s

RECURSIVE rstrip(_)
rstrip(s) ==
    IF s # <<>> /\ s[Len(s)] \in Whitespace
    THEN rstrip(SubSeq(s, 1, Len(s) - 1))
    ELSE s

strip(s) == rstrip(lstrip(s))

\* _pick(k1, k2): the first of the two keys that is not None, stripped.
pick(v1, v2) ==
    IF v1.is = "value" THEN strip(v1.v)
    ELSE IF v2.is = "value" THEN strip(v2.v)
    ELSE <<>>

Contains(seq, x) == \E i \in 1..Len(seq) : seq[i] = x

\* The second loop of _list: stripped, non-empty, first occurrence only.
RECURSIVE unique_stripped(_, _)
unique_stripped(vals, out) ==
    IF vals = <<>> THEN out
    ELSE LET s == strip(Head(vals))
         IN  unique_stripped(Tail(vals),
                             IF s # <<>> /\ ~Contains(out, s)
                             THEN Append(out, s)
                             ELSE out)

\* _list(k1, k2): the lists of the keys that hold a list, concatenated.
list_of(v1, v2) ==
    unique_stripped((IF v1.is = "value" THEN v1.v ELSE <<>>)
                    \o (IF v2.is = "value" THEN v2.v ELSE <<>>), <<>>)

\* normalize_image_request: the four fields apply_image_request_to_project reads.
normalize_image_request(data) ==
    [ baseImage |-> pick(data.baseImage, data.base_image),
      fromImage |-> pick(data.fromImage, data.from_image),
      packages  |-> list_of(data.packages, data.extraPackages),
      commands  |-> list_of(data.commands, data.extraCommands) ]

\* ProjectImageSpec()
DefaultImage ==
    [ base_image     |-> <<>>,
      from_image     |-> <<>>,
      extra_packages |-> <<>>,
      extra_commands |-> <<>>,
      version        |-> 0 ]

\* The tuple `current` of apply_image_request_to_project.
current_of(img) ==
    << strip(img.base_image), strip(img.from_image),
       img.extra_packages, img.extra_commands >>

\* The tuple `desired`.
desired_of(req) ==
    << req.baseImage, req.fromImage, req.packages, req.commands >>

\* An apply that starts the version again at 1 when the request clears
\* every customization.
apply_image_request_to_project_Reset(img, request) ==
    LET req == normalize_image_request(request)
    IN  IF current_of(img) = desired_of(req)
        THEN [image |-> img, ret |-> FALSE]
        ELSE [ image |-> [ base_image     |-> req.baseImage,
                           from_image     |-> req.fromImage,
                           extra_packages |-> req.packages,
                           extra_commands |-> req.commands,
                           version        |->
                               IF desired_of(req) = <<<<>>, <<>>, <<>>, <<>>>>
                               THEN 1 ELSE img.version + 1 ],
               ret   |-> TRUE ]

\* An apply that stores the request and leaves the version as it is once
\* the project has one.
apply_image_request_to_project_KeepVersion(img, request) ==
    LET req == normalize_image_request(request)
    IN  IF current_of(img) = desired_of(req)
        THEN [image |-> img, ret |-> FALSE]
        ELSE [ image |-> [ base_image     |-> req.baseImage,
                           from_image     |-> req.fromImage,
                           extra_packages |-> req.packages,
                           extra_commands |-> req.commands,
                           version        |->
                               IF img.version >= 2 THEN img.version ELSE img.version + 1 ],
               ret   |-> TRUE ]

\* apply_image_request_to_project: the project's image after the call, and
\* the value returned.
apply_image_request_to_project(img, request) ==
    LET req == normalize_image_request(request)
    IN  IF current_of(img) = desired_of(req)
        THEN [image |-> img, ret |-> FALSE]
        ELSE [ image |-> [ base_image     |-> req.baseImage,
                           from_image     |-> req.fromImage,
                           extra_packages |-> req.packages,
                           extra_commands |-> req.commands,
                           version        |-> img.version + 1 ],
               ret   |-> TRUE ]

(***************************************************************************)
(* Dockerfile generation: skua/docker.py                                   *)
(*                                                                         *)
(* A package name, a command and a line of the Dockerfile template are     *)
(* strings; the Dockerfile is the sequence of its parts in the order the   *)
(* template writes them.                                                   *)
(***************************************************************************)

CORE_PACKAGES ==
    << "ca-certificates", "curl", "wget", "git", "openssh-client", "sudo", "vim" >>

DEFAULT_PACKAGES ==
    << "python3", "python3-pip",
       "procps", "coreutils", "findutils", "grep", "gawk", "sed",
       "less", "tree", "file", "htop", "jq", "tmux",
       "zip", "unzip", "tar", "gzip", "bzip2", "xz-utils",
       "diffutils", "patch", "man-db", "manpages",
       "net-tools", "iputils-ping", "dnsutils" >>

\* DEFAULT_AGENT_INSTALLS.get(name, [])
DEFAULT_AGENT_INSTALLS(name) ==
    CASE name = "claude" -> << "curl -fsSL https://claude.ai/install.sh | bash" >>
      [] name = "codex"  -> << "npm install -g --prefix /home/dev/.local @openai/codex" >>
      [] OTHER           -> <<>>

\* DEFAULT_AGENT_REQUIRED_PACKAGES.get(name, [])
DEFAULT_AGENT_REQUIRED_PACKAGES(name) ==
    CASE name = "codex" -> << "nodejs", "npm" >>
      [] OTHER          -> <<>>

\* str.strip() on a command: the one padded command of the model.
strip_command(cmd) ==
    IF cmd = " npm ci " THEN "npm ci" ELSE cmd

\* _normalize_agent_install_commands
RECURSIVE normalize_agent_install_commands(_, _)
normalize_agent_install_commands(agent_name, commands) ==
    IF commands = <<>> THEN <<>>
    ELSE LET c0 == strip_command(Head(commands))
             c  == IF agent_name = "codex" /\ c0 = "npm install -g @openai/codex"
                   THEN "npm install -g --prefix /home/dev/.local @openai/codex"
                   ELSE c0
             rest == normalize_agent_install_commands(agent_name, Tail(commands))
         IN  IF c # "" THEN <<c>> \o rest ELSE rest

\* A deduplication that keeps the last occurrence of an item.
dedup_KeepLast(items) ==
    LET last(i) == \A j \in (i + 1)..Len(items) : items[j] # items[i]
        kept    == SelectSeq([i \in 1..Len(items) |-> i], last)
    IN  [k \in 1..Len(kept) |-> items[kept[k]]]

\* The "deduplicate while preserving order" loops of generate_dockerfile:
\* an item is appended exactly when no earlier item equals it.
dedup(items) ==
    LET first(i) == \A j \in 1..(i - 1) : items[j] # items[i]
        kept     == SelectSeq([i \in 1..Len(items) |-> i], first)
    IN  [k \in 1..Len(kept) |-> items[kept[k]]]

\* packages.extend(...) for each selected agent, in call order.
RECURSIVE agent_packages(_)
agent_packages(agents) ==
    IF agents = <<>> THEN <<>>
    ELSE DEFAULT_AGENT_REQUIRED_PACKAGES(Head(agents).name)
         \o Head(agents).required_packages
         \o agent_packages(Tail(agents))

\* A unique_packages that puts the packages in one order for every call:
\* the baseline and default packages, then the others by name.
unique_packages_Sorted(agents, extra_packages) ==
    LET wanted(p) == Contains(CORE_PACKAGES \o DEFAULT_PACKAGES
                              \o agent_packages(agents) \o extra_packages, p)
    IN  SelectSeq(CORE_PACKAGES \o DEFAULT_PACKAGES
                  \o << "fd", "libpq-dev", "nodejs", "npm", "ripgrep" >>, wanted)

\* unique_packages
unique_packages(agents, extra_packages) ==
    dedup(CORE_PACKAGES \o DEFAULT_PACKAGES \o agent_packages(agents) \o extra_packages)

\* install_cmds of the selected agents, before deduplication.
RECURSIVE agent_install_cmds(_)
agent_install_cmds(agents) ==
    IF agents = <<>> THEN <<>>
    ELSE (IF Head(agents).commands # <<>>
          THEN normalize_agent_install_commands(Head(agents).name, Head(agents).commands)
          ELSE DEFAULT_AGENT_INSTALLS(Head(agents).name))
         \o agent_install_cmds(Tail(agents))

\* install_cmds: without a selected agent, the default install of claude.
install_cmds(agents) ==
    IF agents # <<>> THEN dedup(agent_install_cmds(agents))
    ELSE dedup(DEFAULT_AGENT_INSTALLS("claude"))

\* "\n".join(f"RUN {cmd}" for cmd in cmds)
RECURSIVE run_lines(_)
run_lines(cmds) ==
    IF cmds = <<>> THEN <<>>
    ELSE << "RUN", Head(cmds) >> \o run_lines(Tail(cmds))

\* A remove_sudo that also removes sudo when no SecurityProfile is supplied.
remove_sudo_Default(sec) == sec.is = "none" \/ ~sec.v.sudo

\* remove_sudo = security and not security.agent.sudo
remove_sudo(sec) == sec.is = "value" /\ ~sec.v.sudo

\* generate_dockerfile(agents=..., security=..., base_image=...,
\* extra_packages=..., extra_commands=...)
generate_dockerfile(agents, sec, base_image, extra_packages, extra_commands) ==
    << "FROM", base_image, "ARG", "apt-get install" >>
    \o unique_packages(agents, extra_packages)
    \o << "create user", "install agent" >>
    \o run_lines(install_cmds(agents))
    \o << "WORKDIR" >>
    \o run_lines(extra_commands)
    \o << "COPY claude-settings", "placeholder directories", "ENV" >>
    \o (IF remove_sudo(sec) THEN << "remove sudo" >> ELSE <<>>)
    \o << "COPY entrypoint.sh", "ENTRYPOINT" >>

(***************************************************************************)
(* Build fingerprint: skua/docker.py                                       *)
(*                                                                         *)
(* The bytes fed to the hash are a sequence of symbols: a marker, the NUL  *)
(* byte, the text "<missing>", a decimal digit, a part of the Dockerfile   *)
(* or a byte of an asset.  SHA-256 is taken to be free of collisions: the  *)
(* digest of a byte sequence is that sequence under the tag "sha256".      *)
(***************************************************************************)

NUL == "\\0"
MISSING == "<missing>"

\* str(n) for n >= 0
RECURSIVE str(_)
str(n) ==
    LET digit == << "0", "1", "2", "3", "4", "5", "6", "7", "8", "9" >>[(n % 10) + 1]
    IN  IF n < 10 THEN <<digit>> ELSE Append(str(n \div 10), digit)

\* _hash_with_marker: what one call feeds to the hasher.
hash_with_marker(marker, value) ==
    << marker, NUL >>
    \o (IF value.is = "none" THEN <<MISSING>> ELSE value.v)
    \o << NUL >>

\* hashlib.sha256(data).hexdigest()
hexdigest(data) == << "sha256" >> \o data

\* compute_build_context_hash without the uid and gid segments.
build_context_bytes_NoIds(h) ==
    hash_with_marker("version", Given(<<"v1">>))
    \o hash_with_marker("dockerfile",
           Given(generate_dockerfile(h.agents, h.security, h.base_image,
                                     h.extra_packages, h.extra_commands)))
    \o hash_with_marker("entrypoint", h.entrypoint)
    \o hash_with_marker("claude-default:settings.json", h.settings)
    \o hash_with_marker("claude-default:settings.local.json", h.settings_local)

\* The bytes compute_build_context_hash feeds to the hasher.
build_context_bytes(h) ==
    hash_with_marker("version", Given(<<"v1">>))
    \o hash_with_marker("dockerfile",
           Given(generate_dockerfile(h.agents, h.security, h.base_image,
                                     h.extra_packages, h.extra_commands)))
    \o hash_with_marker("entrypoint", h.entrypoint)
    \o hash_with_marker("uid", Given(str(h.uid)))
    \o hash_with_marker("gid", Given(str(h.gid)))
    \o hash_with_marker("claude-default:settings.json", h.settings)
    \o hash_with_marker("claude-default:settings.local.json", h.settings_local)

\* compute_build_context_hash, on the build inputs h: the arguments of the
\* call and what it reads from the host (entrypoint.sh, uid, gid, the two
\* settings files).
compute_build_context_hash(h) == hexdigest(build_context_bytes(h))

(***************************************************************************)
(* Image names and build inputs of a project: skua/docker.py               *)
(*                                                                         *)
(* An image reference is a sequence of pieces of text; "/", ":", "-" and   *)
(* "." are pieces of their own.                                            *)
(***************************************************************************)

\* A string whose inside the model does not look at, as text of one piece.
text(s) == IF s = "" THEN <<>> ELSE <<s>>

\* str.rfind(c): the last position of c, 0 when there is none (Python: -1).
rfind(s, c) ==
    LET at == { i \in 1..Len(s) : s[i] = c }
    IN  IF at = {} THEN 0 ELSE CHOOSE i \in at : \A j \in at : j <= i

\* str.endswith(suffix)
endswith(s, suffix) ==
    /\ Len(suffix) <= Len(s)
    /\ SubSeq(s, Len(s) - Len(suffix) + 1, Len(s)) = suffix

SkuaBase == << "skua", "-", "base" >>

\* image_name_for_agent splitting at the last colon wherever it is.
image_name_for_agent_LastColon(base_image_name, agent_name) ==
    LET base0  == strip(IF base_image_name = <<>> THEN SkuaBase ELSE base_image_name)
        agent0 == strip(IF agent_name = <<>> THEN << "claude" >> ELSE agent_name)
        base   == IF base0 = <<>> THEN SkuaBase ELSE base0
        agent  == IF agent0 = <<>> THEN << "claude" >> ELSE agent0
        colon_idx == rfind(base, ":")
        repo   == IF colon_idx > 0 THEN SubSeq(base, 1, colon_idx - 1) ELSE base
        tag    == IF colon_idx > 0 THEN SubSeq(base, colon_idx, Len(base)) ELSE <<>>
        suffix == << "-" >> \o agent
    IN  IF endswith(repo, suffix) THEN base ELSE repo \o suffix \o tag

\* image_name_for_agent
image_name_for_agent(base_image_name, agent_name) ==
    LET base0  == strip(IF base_image_name = <<>> THEN SkuaBase ELSE base_image_name)
        agent0 == strip(IF agent_name = <<>> THEN << "claude" >> ELSE agent_name)
        base   == IF base0 = <<>> THEN SkuaBase ELSE base0
        agent  == IF agent0 = <<>> THEN << "claude" >> ELSE agent0
        slash_idx == rfind(base, "/")
        colon_idx == rfind(base, ":")
        repo   == IF colon_idx > slash_idx THEN SubSeq(base, 1, colon_idx - 1) ELSE base
        tag    == IF colon_idx > slash_idx THEN SubSeq(base, colon_idx, Len(base)) ELSE <<>>
        suffix == << "-" >> \o agent
    IN  IF endswith(repo, suffix) THEN base ELSE repo \o suffix \o tag

\* _split_image_ref_tag: <<repository, tag with its colon>>
split_image_ref_tag(image_ref) ==
    LET ref == strip(image_ref)
        slash_idx == rfind(ref, "/")
        colon_idx == rfind(ref, ":")
    IN  IF ref = <<>> THEN << SkuaBase, <<>> >>
        ELSE IF colon_idx > slash_idx
             THEN << SubSeq(ref, 1, colon_idx - 1), SubSeq(ref, colon_idx, Len(ref)) >>
        ELSE << ref, <<>> >>

\* project_has_image_customizations
project_has_image_customizations(project) ==
    \/ strip(project.image.base_image) # <<>>
    \/ strip(project.image.from_image) # <<>>
    \/ project.image.extra_packages # <<>>
    \/ project.image.extra_commands # <<>>

\* The pieces of text for which str.isalnum() is false.
NotAlnum == Whitespace \cup {".", "_", "-", "/", ":", "@"}

\* str.strip(".-")
RECURSIVE strip_dots(_)
strip_dots(s) ==
    IF s # <<>> /\ Head(s) \in {".", "-"} THEN strip_dots(Tail(s))
    ELSE IF s # <<>> /\ s[Len(s)] \in {".", "-"}
         THEN strip_dots(SubSeq(s, 1, Len(s) - 1))
    ELSE s

\* _sanitize_mount_name
sanitize_mount_name(name) ==
    LET stripped == strip(name)
        mapped   == [ i \in 1..Len(stripped) |->
                        IF stripped[i] \notin NotAlnum \/ stripped[i] \in {".", "_", "-"}
                        THEN stripped[i]
                        ELSE "-" ]
        cleaned  == strip_dots(mapped)
    IN  IF cleaned \in { <<>>, << "." >>, << ".", "." >> }
        THEN << "project" >>
        ELSE cleaned

\* image_name_for_project with the image version taken as it is stored.
image_name_for_project_RawVersion(base_image_name, project) ==
    LET agent_name  == IF project.agent = "" THEN "claude" ELSE project.agent
        agent_image == image_name_for_agent(base_image_name, text(agent_name))
        parts       == split_image_ref_tag(agent_image)
        project_part == sanitize_mount_name(IF project.name = <<>>
                                            THEN << "project" >>
                                            ELSE project.name)
    IN  IF ~project_has_image_customizations(project) THEN agent_image
        ELSE parts[1] \o << "-" >> \o project_part \o << "-", "v" >>
             \o str(project.image.version) \o parts[2]

\* image_name_for_project
image_name_for_project(base_image_name, project) ==
    LET agent_name  == IF project.agent = "" THEN "claude" ELSE project.agent
        agent_image == image_name_for_agent(base_image_name, text(agent_name))
        parts       == split_image_ref_tag(agent_image)
        project_part == sanitize_mount_name(IF project.name = <<>>
                                            THEN << "project" >>
                                            ELSE project.name)
        version     == IF project.image.version < 1 THEN 1 ELSE project.image.version
    IN  IF ~project_has_image_customizations(project) THEN agent_image
        ELSE parts[1] \o << "-" >> \o project_part \o << "-", "v" >>
             \o str(version) \o parts[2]

LEGACY_CODEX_UNIVERSAL_IMAGE == "ghcr.io/openai/codex-universal:latest"

\* base_image_for_agent, for an agent that is not None.
base_image_for_agent(default_base_image, agent) ==
    IF agent.base_image # ""
    THEN IF /\ agent.name = "codex"
            /\ agent.base_image = LEGACY_CODEX_UNIVERSAL_IMAGE
            /\ agent.commands = <<>>
            /\ agent.required_packages = <<>>
         THEN default_base_image
         ELSE agent.base_image
    ELSE default_base_image

\* _merge_unique
merge_unique(items) == unique_stripped(items, <<>>)

\* resolve_project_image_inputs
resolve_project_image_inputs(default_base_image, agent, project, global_extra_packages, global_extra_commands) ==
    LET agent_default_base == base_image_for_agent(default_base_image, agent)
        project_base_image == strip(project.image.base_image)
        project_from_image == strip(project.image.from_image)
    IN  [ base_image     |-> IF project_from_image # <<>> THEN project_from_image
                             ELSE IF project_base_image # <<>> THEN project_base_image
                             ELSE agent_default_base,
          extra_packages |-> merge_unique(global_extra_packages
                                          \o project.image.extra_packages),
          extra_commands |-> merge_unique(global_extra_commands
                                          \o project.image.extra_commands) ]

(***************************************************************************)
(* SpecAdapt: a project created by `skua add` (ProjectImageSpec()) and     *)
(* image requests applied to it one after the other.                       *)
(***************************************************************************)

RawStrings == { <<>>, <<"x">>, <<" ", "x">>, <<"y">> }

RawLists ==
    UNION { [1..n -> { <<"x">>, <<"x", " ">>, <<"y">> }] : n \in 0..MaxListLen }

\* The image-request documents applied: every key absent or given, with
\* padded values, repeated list entries and the alternative key names.
RawRequests ==
    [ baseImage     : {Absent} \cup {Given(s) : s \in RawStrings},
      base_image    : {Absent, Given(<<"y">>)},
      fromImage     : {Absent, Given(<<"x">>)},
      from_image    : {Absent},
      packages      : {Absent} \cup {Given(l) : l \in RawLists},
      extraPackages : {Absent, Given(<< <<"y">> >>)},
      commands      : {Absent, Given(<< <<"x">> >>)},
      extraCommands : {Absent} ]

InitAdapt ==
    /\ image = DefaultImage
    /\ applied = [called |-> FALSE, request |-> <<>>, ret |-> FALSE]
    /\ IdleValidate
    /\ IdleHash
    /\ IdleImage
    /\ IdleBuild
    /\ IdleCmd
    /\ IdleDockerfile
    /\ IdleLater

ApplyImageRequest ==
    /\ image.version < MaxVersion
    /\ \E request \in RawRequests :
         LET r == apply_image_request_to_project(image, request)
         IN  /\ image' = r.image
             /\ applied' = [ called  |-> TRUE,
                             request |-> desired_of(normalize_image_request(request)),
                             ret     |-> r.ret ]
    /\ UNCHANGED notAdapt

NextAdapt ==
    \/ ApplyImageRequest

SpecAdapt == InitAdapt /\ [][NextAdapt]_vars

(***************************************************************************)
(* SpecHash: the build inputs of one image, changed one at a time (a       *)
(* configuration edit, a file written or removed, another build user),     *)
(* and compute_build_context_hash run on them.                             *)
(***************************************************************************)

\* The changes made to the inputs, and the longest list of extra packages
\* or extra commands.
MaxEdits == 2
MaxExtraLen == 1

\* AgentConfig: name, install.commands, install.required_packages.
AgentChoices ==
    { [name |-> "claude", commands |-> <<>>, required_packages |-> <<>>],
      [name |-> "claude",
       commands |-> << "curl -fsSL https://claude.ai/install.sh | bash" >>,
       required_packages |-> <<>>],
      [name |-> "claude", commands |-> <<>>, required_packages |-> << "libpq-dev" >>],
      [name |-> "codex", commands |-> <<>>, required_packages |-> <<>>],
      [name |-> "codex",
       commands |-> << "npm install -g @openai/codex" >>,
       required_packages |-> << "nodejs" >>] }

SecurityChoices == {Absent, Given([sudo |-> TRUE]), Given([sudo |-> FALSE])}

BaseImages == {"debian:bookworm-slim", "ubuntu:24.04"}

SeqsUpTo(S, n) == UNION { [1..k -> S] : k \in 0..n }

ExtraPackageLists == SeqsUpTo({"git", "libpq-dev"}, MaxExtraLen)
ExtraCommandLists == SeqsUpTo({"npm ci"}, MaxExtraLen)

\* The contents of entrypoint.sh, settings.json and settings.local.json:
\* empty, a byte, a file that holds the text "<missing>".
AssetContents == { <<>>, << "a" >>, << "b" >>, << MISSING >> }

Uids == {1000, 1001}

\* The inputs of a first build: the shipped entrypoint, no settings files.
DefaultHost ==
    [ agents         |-> << [name |-> "claude", commands |-> <<>>,
                             required_packages |-> <<>>] >>,
      security       |-> Given([sudo |-> FALSE]),
      base_image     |-> "debian:bookworm-slim",
      extra_packages |-> <<>>,
      extra_commands |-> <<>>,
      entrypoint     |-> Given(<< "a" >>),
      uid            |-> 1000,
      gid            |-> 1000,
      settings       |-> Absent,
      settings_local |-> Absent ]

NoHash == [known |-> FALSE]

InitHash ==
    /\ host = DefaultHost
    /\ computed = NoHash
    /\ previous = NoHash
    /\ edits = 0
    /\ IdleValidate
    /\ IdleAdapt
    /\ IdleImage
    /\ IdleBuild
    /\ IdleCmd
    /\ IdleDockerfile
    /\ IdleLater

\* An input may change once the fingerprint of the present inputs is known.
CanEdit ==
    /\ computed.known
    /\ computed.inputs = host
    /\ edits < MaxEdits

Edit(h) ==
    /\ CanEdit
    /\ h # host
    /\ host' = h
    /\ previous' = NoHash
    /\ edits' = edits + 1
    /\ UNCHANGED computed
    /\ UNCHANGED notHash

SetAgent == \E a \in AgentChoices : Edit([host EXCEPT !.agents = <<a>>])
SetSecurity == \E s \in SecurityChoices : Edit([host EXCEPT !.security = s])
SetBaseImage == \E b \in BaseImages : Edit([host EXCEPT !.base_image = b])
SetExtraPackages ==
    \E l \in ExtraPackageLists : Edit([host EXCEPT !.extra_packages = l])
SetExtraCommands ==
    \E l \in ExtraCommandLists : Edit([host EXCEPT !.extra_commands = l])
WriteEntrypoint == \E c \in AssetContents : Edit([host EXCEPT !.entrypoint = Given(c)])
RemoveEntrypoint == Edit([host EXCEPT !.entrypoint = Absent])
SetUid == \E u \in Uids : Edit([host EXCEPT !.uid = u])
SetGid == \E g \in Uids : Edit([host EXCEPT !.gid = g])
WriteSettings == \E c \in AssetContents : Edit([host EXCEPT !.settings = Given(c)])
RemoveSettings == Edit([host EXCEPT !.settings = Absent])
WriteSettingsLocal ==
    \E c \in AssetContents : Edit([host EXCEPT !.settings_local = Given(c)])
RemoveSettingsLocal == Edit([host EXCEPT !.settings_local = Absent])

ComputeBuildContextHash ==
    /\ previous' = computed
    /\ computed' = [ known  |-> TRUE,
                     inputs |-> host,
                     hash   |-> compute_build_context_hash(host) ]
    /\ UNCHANGED <<host, edits>>
    /\ UNCHANGED notHash

NextHash ==
    \/ SetAgent
    \/ SetSecurity
    \/ SetBaseImage
    \/ SetExtraPackages
    \/ SetExtraCommands
    \/ WriteEntrypoint
    \/ RemoveEntrypoint
    \/ SetUid
    \/ SetGid
    \/ WriteSettings
    \/ RemoveSettings
    \/ WriteSettingsLocal
    \/ RemoveSettingsLocal
    \/ ComputeBuildContextHash

SpecHash == InitHash /\ [][NextHash]_vars

(***************************************************************************)
(* Drift detection: skua/docker.py, _image_label and                       *)
(* image_matches_build_context.                                            *)
(*                                                                         *)
(* The registry is docker as this host has it: not installed, no image     *)
(* under the tag, or an image with or without the fingerprint label.       *)
(***************************************************************************)
NoDocker == [docker |-> FALSE]
NoImage == [docker |-> TRUE, exists |-> FALSE]
Image(label) == [docker |-> TRUE, exists |-> TRUE, label |-> label]

\* What `docker image inspect --format '{{ index .Config.Labels "key" }}'`
\* may answer: no executable, a failure for a missing image, and for an
\* image the value of the label followed by a newline; for a missing label
\* an empty line, "<no value>" or "<nil>", as the docker release has it.
inspect_outcomes(reg) ==
    IF ~reg.docker THEN { [raised |-> TRUE] }
    ELSE IF ~reg.exists
         THEN { [raised |-> FALSE, returncode |-> 1, stdout |-> <<>>] }
    ELSE IF reg.label.is = "none"
         THEN { [raised |-> FALSE, returncode |-> 0, stdout |-> out] :
                  out \in { << "\n" >>, << "<no value>", "\n" >>, << "<nil>", "\n" >> } }
    ELSE { [raised |-> FALSE, returncode |-> 0,
            stdout |-> reg.label.v \o << "\n" >>] }

\* _image_label, on the outcome of the inspect subprocess.
image_label(out) ==
    IF out.raised THEN <<>>
    ELSE IF out.returncode # 0 THEN <<>>
    ELSE LET value == strip(out.stdout)
         IN  IF value \in { <<>>, << "<no value>" >>, << "<nil>" >> }
             THEN <<>>
             ELSE value

\* image_matches_build_context that trusts every labelled image.
image_matches_build_context_AnyLabel(out, h) ==
    LET actual_hash == image_label(out)
    IN  actual_hash # <<>>

\* image_matches_build_context, on the outcome of the inspect subprocess and
\* the present build inputs.
image_matches_build_context(out, h) ==
    LET expected_hash == compute_build_context_hash(h)
        actual_hash   == image_label(out)
    IN  actual_hash # <<>> /\ actual_hash = expected_hash

(***************************************************************************)
(* SpecImage: the security profile, the extra packages, the entrypoint and *)
(* the build user change as in SpecHash; the image under the tag is built  *)
(* by build_image from the present inputs, built outside skua, or removed; *)
(* image_matches_build_context is asked at any time.                       *)
(***************************************************************************)
NoMatch == [called |-> FALSE]
NoBuild == [called |-> FALSE]

\* The image under the tag carries a fingerprint label that is not the
\* fingerprint of the inputs h.
LabelledFor(reg, h) ==
    /\ reg.docker
    /\ reg.exists
    /\ reg.label.is = "value"
    /\ reg.label.v # <<>>
    /\ reg.label.v # compute_build_context_hash(h)

InitImage ==
    /\ host = DefaultHost
    /\ computed = NoHash
    /\ previous = NoHash
    /\ edits = 0
    /\ registry \in {NoDocker, NoImage}
    /\ matched = NoMatch
    /\ built = NoBuild
    /\ IdleValidate
    /\ IdleAdapt
    /\ IdleBuild
    /\ IdleCmd
    /\ IdleDockerfile
    /\ IdleLater

\* A build_image that tags its image without the fingerprint label.
BuildImage_NoLabel ==
    /\ registry.docker
    /\ registry' = Image(Absent)
    /\ built' = [ called |-> TRUE, ok |-> TRUE, over_stale |-> LabelledFor(registry, host) ]
    /\ UNCHANGED <<hashVars, matched>>
    /\ UNCHANGED notImage

\* A successful build_image: `docker build --label
\* skua.build-context-hash=<context_hash> -t image_name`.
BuildImage ==
    /\ registry.docker
    /\ registry' = Image(Given(compute_build_context_hash(host)))
    /\ built' = [ called |-> TRUE, ok |-> TRUE, over_stale |-> LabelledFor(registry, host) ]
    /\ UNCHANGED <<hashVars, matched>>
    /\ UNCHANGED notImage

\* A build_image that fails: no docker executable, a file of the context
\* that cannot be copied, or `docker build` ending with a status other
\* than 0. The tag stays where it was.
BuildImageFails ==
    /\ built' = [ called |-> TRUE, ok |-> FALSE, over_stale |-> LabelledFor(registry, host) ]
    /\ UNCHANGED <<hashVars, registry, matched>>
    /\ UNCHANGED notImage

\* An image put under the tag by something else than build_image: without
\* the label, or with an empty one.
TagForeignImage ==
    /\ registry.docker
    /\ \E label \in {Absent, Given(<<>>)} : registry' = Image(label)
    /\ UNCHANGED <<hashVars, matched, built>>
    /\ UNCHANGED notImage

\* docker rmi
RemoveImage ==
    /\ registry.docker
    /\ registry.exists
    /\ registry' = NoImage
    /\ UNCHANGED <<hashVars, matched, built>>
    /\ UNCHANGED notImage

ImageMatchesBuildContext ==
    /\ \E out \in inspect_outcomes(registry) :
         matched' = [ called |-> TRUE,
                      stdout |-> IF out.raised THEN <<>> ELSE out.stdout,
                      ret    |-> image_matches_build_context(out, host) ]
    /\ UNCHANGED <<hashVars, registry, built>>
    /\ UNCHANGED notImage

NextImage ==
    \/ SetSecurity
    \/ SetExtraPackages
    \/ WriteEntrypoint
    \/ SetUid
    \/ ComputeBuildContextHash
    \/ BuildImage
    \/ BuildImageFails
    \/ TagForeignImage
    \/ RemoveImage
    \/ ImageMatchesBuildContext

SpecImage == InitImage /\ [][NextImage]_vars

(***************************************************************************)
(* build_image: skua/docker.py, one action per statement that touches the  *)
(* file system or runs docker.                                             *)
(*                                                                         *)
(* Every caller passes the same container_dir, so build_path is the one    *)
(* directory container_dir/.build-context.  A directory is told from a     *)
(* later one at the same path by the call that made it.                    *)
(***************************************************************************)

\* The calls one caller makes.
MaxCalls == 2

\* The callers, the tag each builds and the agent it builds for.
Callers == {1, 2}

tag_of(p) == IF p = 1 THEN "skua-base-claude" ELSE "skua-base-codex"

agents_of(p) ==
    IF p = 1
    THEN << [name |-> "claude", commands |-> <<>>, required_packages |-> <<>>] >>
    ELSE << [name |-> "codex", commands |-> <<>>, required_packages |-> <<>>] >>

\* The Dockerfile build_image synthesizes for caller p.
dockerfile_content(p) ==
    generate_dockerfile(agents_of(p), Given([sudo |-> FALSE]),
                        "debian:bookworm-slim", <<>>, <<>>)

NoDir == [exists |-> FALSE]

\* build_path.mkdir() by caller p in its n-th call.
NewDir(p, n) ==
    [ exists          |-> TRUE,
      made_by         |-> <<p, n>>,
      removable       |-> TRUE,
      dockerfile      |-> Absent,
      entrypoint      |-> FALSE,
      claude_settings |-> FALSE ]

\* A directory left behind by a build that was killed; one that another
\* user made cannot be removed.
StaleDirs ==
    { [ exists          |-> TRUE,
        made_by         |-> <<0, 0>>,
        removable       |-> r,
        dockerfile      |-> Absent,
        entrypoint      |-> FALSE,
        claude_settings |-> FALSE ] : r \in BOOLEAN }

NotCalled ==
    [ pc |-> "idle", n |-> 0, made |-> FALSE, result |-> "none",
      failed_at |-> "none", built |-> Absent ]

Running(p) == call[p].pc \notin {"idle", "returned", "raised"}

\* An exception inside the try block, without the finally clause.
Raise_NoFinally(p, at) ==
    [call EXCEPT ![p].pc = "raised", ![p].result = "raised", ![p].failed_at = at]

\* An exception inside the try block: control goes to the finally clause.
Raise(p, at) ==
    [call EXCEPT ![p].pc = "finally", ![p].result = "raised", ![p].failed_at = at]

Goto(p, pc) == [call EXCEPT ![p].pc = pc]

\* build_image(...) is called; compute_build_context_hash runs before the
\* try block and may fail reading entrypoint.sh or a settings file.
Call(p) ==
    /\ ~Running(p)
    /\ call[p].n < MaxCalls
    /\ \E ok \in BOOLEAN :
         call' = [call EXCEPT ![p] =
                    [ pc        |-> IF ok THEN "exists" ELSE "raised",
                      n         |-> call[p].n + 1,
                      made      |-> FALSE,
                      result    |-> IF ok THEN "none" ELSE "raised",
                      failed_at |-> IF ok THEN "none" ELSE "hash",
                      built     |-> Absent ]]
    /\ UNCHANGED ctx
    /\ UNCHANGED notBuild

\* The same, by a caller that starts when no other call is running.
CallAlone(p) ==
    /\ \A q \in Callers : ~Running(q)
    /\ Call(p)

\* if build_path.exists():
Exists(p) ==
    /\ call[p].pc = "exists"
    /\ call' = Goto(p, IF ctx.exists THEN "rmtree" ELSE "mkdir")
    /\ UNCHANGED ctx
    /\ UNCHANGED notBuild

\* shutil.rmtree(build_path)
Rmtree(p) ==
    /\ call[p].pc = "rmtree"
    /\ IF ctx.exists /\ ctx.removable
       THEN ctx' = NoDir /\ call' = Goto(p, "mkdir")
       ELSE ctx' = ctx /\ call' = Raise(p, "rmtree")
    /\ UNCHANGED notBuild

\* build_path.mkdir()
Mkdir(p) ==
    /\ call[p].pc = "mkdir"
    /\ \E ok \in BOOLEAN :
         IF ok /\ ~ctx.exists
         THEN /\ ctx' = NewDir(p, call[p].n)
              /\ call' = [call EXCEPT ![p].pc = "dockerfile", ![p].made = TRUE]
         ELSE /\ ctx' = ctx
              /\ call' = Raise(p, "mkdir")
    /\ UNCHANGED notBuild

\* (build_path / "Dockerfile").write_text(dockerfile_content)
WriteDockerfile(p) ==
    /\ call[p].pc = "dockerfile"
    /\ \E ok \in BOOLEAN :
         IF ok /\ ctx.exists
         THEN /\ ctx' = [ctx EXCEPT !.dockerfile = Given(dockerfile_content(p))]
              /\ call' = Goto(p, "entrypoint")
         ELSE /\ ctx' = ctx
              /\ call' = Raise(p, "dockerfile")
    /\ UNCHANGED notBuild

\* shutil.copy2(container_dir / "entrypoint.sh", build_path / "entrypoint.sh")
CopyEntrypoint(p) ==
    /\ call[p].pc = "entrypoint"
    /\ \E ok \in BOOLEAN :
         IF ok /\ ctx.exists
         THEN /\ ctx' = [ctx EXCEPT !.entrypoint = TRUE]
              /\ call' = Goto(p, "settings")
         ELSE /\ ctx' = ctx
              /\ call' = Raise(p, "entrypoint")
    /\ UNCHANGED notBuild

\* settings_dir.mkdir() and the copy of the settings files into it
CopySettings(p) ==
    /\ call[p].pc = "settings"
    /\ \E ok \in BOOLEAN :
         IF ok /\ ctx.exists /\ ~ctx.claude_settings
         THEN /\ ctx' = [ctx EXCEPT !.claude_settings = TRUE]
              /\ call' = Goto(p, "docker_build")
         ELSE /\ ctx' = ctx
              /\ call' = Raise(p, "settings")
    /\ UNCHANGED notBuild

\* subprocess.run(["docker", "build", ..., "-t", image_name, str(build_path)])
\* and `return result.returncode == 0`: docker reads the directory as it is
\* now, and fails without a Dockerfile.
DockerBuild(p) ==
    /\ call[p].pc = "docker_build"
    /\ \E returncode \in {0, 1} :
         /\ (returncode = 0) => (ctx.exists /\ ctx.dockerfile.is = "value")
         /\ call' = [call EXCEPT
                       ![p].pc = "finally",
                       ![p].result = IF returncode = 0 THEN "True" ELSE "False",
                       ![p].failed_at = IF returncode = 0 THEN "none" ELSE "docker_build",
                       ![p].built = Given(ctx)]
    /\ UNCHANGED ctx
    /\ UNCHANGED notBuild

\* finally: if build_path.exists():
FinallyExists(p) ==
    /\ call[p].pc = "finally"
    /\ call' = Goto(p, IF ctx.exists THEN "finally_rmtree"
                       ELSE IF call[p].result = "raised" THEN "raised"
                       ELSE "returned")
    /\ UNCHANGED ctx
    /\ UNCHANGED notBuild

\* finally: shutil.rmtree(build_path, ignore_errors=True)
FinallyRmtree(p) ==
    /\ call[p].pc = "finally_rmtree"
    /\ ctx' = IF ctx.exists /\ ctx.removable THEN NoDir ELSE ctx
    /\ call' = Goto(p, IF call[p].result = "raised" THEN "raised" ELSE "returned")
    /\ UNCHANGED notBuild

InitBuild ==
    /\ ctx \in {NoDir} \cup StaleDirs
    /\ call = [p \in Callers |-> NotCalled]
    /\ IdleValidate
    /\ IdleAdapt
    /\ IdleHash
    /\ IdleImage
    /\ IdleCmd
    /\ IdleDockerfile
    /\ IdleLater

NextBuild ==
    \E p \in Callers :
        \/ CallAlone(p)
        \/ Exists(p)
        \/ Rmtree(p)
        \/ Mkdir(p)
        \/ WriteDockerfile(p)
        \/ CopyEntrypoint(p)
        \/ CopySettings(p)
        \/ DockerBuild(p)
        \/ FinallyExists(p)
        \/ FinallyRmtree(p)

SpecBuild == InitBuild /\ [][NextBuild]_vars

NextConcurrentBuild ==
    \E p \in Callers :
        \/ Call(p)
        \/ Exists(p)
        \/ Rmtree(p)
        \/ Mkdir(p)
        \/ WriteDockerfile(p)
        \/ CopyEntrypoint(p)
        \/ CopySettings(p)
        \/ DockerBuild(p)
        \/ FinallyExists(p)
        \/ FinallyRmtree(p)

SpecConcurrentBuild == InitBuild /\ [][NextConcurrentBuild]_vars

(***************************************************************************)
(* SpecDockerfile: generate_dockerfile called several times for the same   *)
(* agents and SecurityProfile, with the extra packages and commands of     *)
(* each call.                                                              *)
(***************************************************************************)

\* How many generate_dockerfile calls a behaviour makes.
MaxGenerate == 2

\* The agents of a call, in call order.
AgentLists ==
    { <<>>,
      << [name |-> "claude", commands |-> <<>>, required_packages |-> <<>>] >>,
      << [name |-> "codex", commands |-> <<>>, required_packages |-> <<>>] >>,
      << [name |-> "claude", commands |-> <<>>, required_packages |-> << "libpq-dev" >>],
         [name |-> "codex", commands |-> <<>>, required_packages |-> <<>>] >>,
      << [name |-> "codex", commands |-> << "npm install -g @openai/codex" >>,
          required_packages |-> << "nodejs" >>],
         [name |-> "claude", commands |-> <<>>, required_packages |-> << "jq", "fd" >>] >>,
      << [name |-> "claude", commands |-> <<>>, required_packages |-> <<>>],
         [name |-> "claude", commands |-> <<>>, required_packages |-> <<>>] >> }

\* extra_packages of a call: none, packages the image has anyway, new ones,
\* in both orders, and one named twice.
PackageArgs ==
    { <<>>, << "git", "jq" >>, << "jq", "git" >>, << "ripgrep", "fd" >>,
      << "fd", "ripgrep" >>, << "fd", "nodejs", "fd" >> }

\* extra_commands of a call.
CommandArgs == { <<>>, << "make", "npm ci" >> }

InitDockerfile ==
    /\ \E agents \in AgentLists, sec \in SecurityChoices :
         generated = [ agents |-> agents, security |-> sec, calls |-> <<>> ]
    /\ IdleValidate
    /\ IdleAdapt
    /\ IdleHash
    /\ IdleImage
    /\ IdleBuild
    /\ IdleCmd
    /\ IdleLater

GenerateDockerfile ==
    /\ Len(generated.calls) < MaxGenerate
    /\ \E extra_packages \in PackageArgs, extra_commands \in CommandArgs :
         generated' = [ generated EXCEPT !.calls = Append(@,
             [ extra_packages |-> extra_packages,
               extra_commands |-> extra_commands,
               dockerfile     |-> generate_dockerfile(generated.agents,
                                      generated.security, "debian:bookworm-slim",
                                      extra_packages, extra_commands) ]) ]
    /\ UNCHANGED notDockerfile

NextDockerfile ==
    \/ GenerateDockerfile

SpecDockerfile == InitDockerfile /\ [][NextDockerfile]_vars

(***************************************************************************)
(* The commands: skua/commands/build.py, run.py, adapt.py.                 *)
(*                                                                         *)
(* The configuration is the one `skua init` and `skua add` leave: the      *)
(* presets below, global.yaml with defaults.security, and two local       *)
(* projects without image customization whose directories exist.  The     *)
(* build assets (container_dir) are installed.                             *)
(***************************************************************************)

\* The SecurityProfile resources of the store, by name.
SecurityStore ==
    [ open     |-> [ outbound |-> "unrestricted", sudo |-> TRUE,
                     install_mode |-> "unrestricted", audit_mode |-> "none",
                     updates_mode |-> "disabled", updates_source |-> "audit" ],
      standard |-> [ outbound |-> "unrestricted", sudo |-> FALSE,
                     install_mode |-> "none", audit_mode |-> "none",
                     updates_mode |-> "disabled", updates_source |-> "audit" ],
      advisory |-> [ outbound |-> "unrestricted", sudo |-> FALSE,
                     install_mode |-> "advisory", audit_mode |-> "advisory",
                     updates_mode |-> "disabled", updates_source |-> "audit" ] ]

\* The Environment resources of the store, by name.
EnvironmentStore ==
    [ local   |-> [ mode |-> "unmanaged", driver |-> "docker",
                    network_mode |-> "bridge", container_runtime |-> "",
                    docker_cleanup |-> "ephemeral", compose_cleanup |-> "ephemeral" ],
      offline |-> [ mode |-> "unmanaged", driver |-> "docker",
                    network_mode |-> "none", container_runtime |-> "",
                    docker_cleanup |-> "ephemeral", compose_cleanup |-> "ephemeral" ] ]

\* The AgentConfig resources of the store, by name.
AgentStore ==
    [ claude |-> [ name |-> "claude", commands |-> <<>>, required_packages |-> <<>>,
                   base_image |-> "", login_command |-> "claude login" ],
      codex  |-> [ name |-> "codex", commands |-> <<>>, required_packages |-> <<>>,
                   base_image |-> "", login_command |-> "codex login" ] ]

\* ConfigStore.load_resource: None when the store has no such file.
load(resources, name) ==
    IF name \in DOMAIN resources THEN Given(resources[name]) ELSE Absent

load_security(name) == load(SecurityStore, name)
load_environment(name) == load(EnvironmentStore, name)
load_agent(name) == load(AgentStore, name)

\* A project as `skua add` saves it.
NewProject(name, env, sec, agent) ==
    [ name        |-> text(name),
      directory   |-> "/work",
      environment |-> env,
      security    |-> sec,
      agent       |-> agent,
      image       |-> DefaultImage ]

\* The configurations: project app refers to any environment, profile and
\* agent (one agent has no AgentConfig), project lib to the defaults.
Configs ==
    [ defaults_security : {"open", "standard", "missing"},
      projects : { [ app |-> NewProject("app", e, s, a),
                     lib |-> NewProject("lib", "local", "open", b) ] :
                   e \in {"local", "offline"},
                   s \in {"open", "standard", "advisory"},
                   a \in {"claude", "ghost"},
                   b \in {"claude", "codex"} } ]

\* store.list_resources("Project"): the names, sorted.
ProjectNames == << "app", "lib" >>

\* g.get("imageName", "skua-base"), g.get("baseImage", "debian:bookworm-slim")
\* and g.get("image", {}): global.yaml sets none of them.
GlobalImageName == SkuaBase
GlobalBaseImage == "debian:bookworm-slim"

\* The names under which the commands look for images.
ImageNames ==
    { image_name_for_agent(GlobalImageName, text(a)) : a \in DOMAIN AgentStore }

\* What build_image hashes and builds from: its arguments and the files of
\* the host.
build_inputs(profile, agent, resolved) ==
    [ agents         |-> << agent >>,
      security       |-> profile,
      base_image     |-> resolved.base_image,
      extra_packages |-> resolved.extra_packages,
      extra_commands |-> resolved.extra_commands,
      entrypoint     |-> DefaultHost.entrypoint,
      uid            |-> DefaultHost.uid,
      gid            |-> DefaultHost.gid,
      settings       |-> DefaultHost.settings,
      settings_local |-> DefaultHost.settings_local ]

\* image_exists
image_exists(imgs, name) == name \in DOMAIN imgs /\ imgs[name].exists

\* build_image, as one step: the record of the call, and the images after
\* it; docker build tags the image and labels it with the fingerprint only
\* when it succeeds.
build_image(imgs, project, image_name, profile, agent, resolved, ok) ==
    [ images |-> IF ok
                 THEN [imgs EXCEPT ![image_name] =
                         Image(Given(compute_build_context_hash(
                             build_inputs(profile, agent, resolved))))]
                 ELSE imgs,
      record |-> [ project      |-> project.name,
                   image_name   |-> image_name,
                   security     |-> profile,
                   removes_sudo |-> Contains(
                       generate_dockerfile(<< agent >>, profile, resolved.base_image,
                                           resolved.extra_packages,
                                           resolved.extra_commands),
                       "remove sudo"),
                   success      |-> ok ] ]

\* What a command did: its exit status, the image_matches_build_context,
\* build_image and container starts it made, and the images it leaves.
Done(code, matches, builds, containers, imgs) ==
    [ exit |-> code, matches |-> matches, builds |-> builds,
      containers |-> containers, images |-> imgs ]

\* sys.exit(1) before any image or container was touched.
Exit1(imgs) == Done(1, <<>>, <<>>, <<>>, imgs)

\* store.load_security(defaults.get("security", "open"))
default_security(cfg) == load_security(cfg.defaults_security)

\* store.load_security(build_security_name) or sec
security_or(profile, sec) == IF profile.is = "value" THEN profile ELSE sec

\* resolve_project_image_inputs on the global defaults.
resolved_inputs(agent, project) ==
    resolve_project_image_inputs(GlobalBaseImage, agent, project, <<>>, <<>>)

\* The loop of cmd_build over project_specs: one iteration for the image
\* name of the first of specs, then the rest.
RECURSIVE build_loop(_, _, _, _, _, _, _)
build_loop_built(cfg, specs, seen_images, builds, failed, ok, image_name, b) ==
    build_loop(cfg, Tail(specs), seen_images \cup {image_name},
               b.images, Append(builds, b.record),
               IF b.record.success THEN failed ELSE Append(failed, image_name), ok)

build_loop_body(cfg, specs, seen_images, imgs, builds, failed, ok, image_name) ==
    IF image_name \in seen_images
    THEN build_loop(cfg, Tail(specs), seen_images, imgs, builds, failed, ok)
    ELSE IF image_exists(imgs, image_name)
    THEN build_loop(cfg, Tail(specs), seen_images \cup {image_name},
                    imgs, builds, failed, ok)
    ELSE build_loop_built(cfg, specs, seen_images, builds, failed, ok, image_name,
             build_image(imgs, Head(specs).project, image_name,
                         default_security(cfg), Head(specs).agent,
                         resolved_inputs(Head(specs).agent, Head(specs).project),
                         ok[image_name]))

build_loop(cfg, specs, seen_images, imgs, builds, failed, ok) ==
    IF specs = <<>>
    THEN Done(IF failed # <<>> THEN 1 ELSE 0, <<>>, builds, <<>>, imgs)
    ELSE build_loop_body(cfg, specs, seen_images, imgs, builds, failed, ok,
             image_name_for_project(GlobalImageName, Head(specs).project))

\* The projects of cmd_build, in the order of their names.
required_projects(cfg) ==
    [ i \in 1..Len(ProjectNames) |-> cfg.projects[ProjectNames[i]] ]

\* project_specs of cmd_build: each project with its AgentConfig.
project_specs(required) ==
    [ i \in 1..Len(required) |->
        [ project |-> required[i], agent |-> load_agent(required[i].agent).v ] ]

\* cmd_build; ok says for each image name whether its docker build succeeds.
cmd_build(cfg, imgs, ok) ==
    IF \E i \in 1..Len(ProjectNames) :
          load_agent(cfg.projects[ProjectNames[i]].agent).is = "none"
    THEN Exit1(imgs)
    ELSE build_loop(cfg, project_specs(required_projects(cfg)), {}, imgs,
                    <<>>, <<>>, ok)

\* The container a command starts for a project.
container_of(project, image_name) ==
    [ project |-> project.name, image_name |-> image_name ]

\* cmd_run from the image lookup on: the image is used or built, then the
\* container is started.
run_with_build(b, container, start_ok) ==
    IF ~b.record.success
    THEN Done(1, <<>>, << b.record >>, <<>>, b.images)
    ELSE Done(IF start_ok THEN 0 ELSE 1, <<>>, << b.record >>, << container >>,
              b.images)

run_with_image(cfg, imgs, project, sec, agent, image_name, build_ok, start_ok) ==
    IF image_exists(imgs, image_name)
    THEN Done(IF start_ok THEN 0 ELSE 1, <<>>, <<>>,
              << container_of(project, image_name) >>, imgs)
    ELSE run_with_build(
             build_image(imgs, project, image_name,
                         security_or(default_security(cfg), sec), agent,
                         resolved_inputs(agent, project), build_ok),
             container_of(project, image_name), start_ok)

run_loaded(cfg, imgs, project, env, sec, agent, build_ok, start_ok) ==
    IF env.is = "none" \/ sec.is = "none" \/ agent.is = "none"
    THEN Exit1(imgs)
    ELSE IF ~valid(validate_project(project, env.v, sec.v, agent.v))
    THEN Exit1(imgs)
    ELSE run_with_image(cfg, imgs, project, sec, agent.v,
                        image_name_for_project(GlobalImageName, project),
                        build_ok, start_ok)

\* cmd_run for a local project without a repo; running: the container of
\* the project is already running; build_ok, start_ok: the outcomes of
\* docker build and of starting the container.
cmd_run(cfg, imgs, name, running, build_ok, start_ok) ==
    IF running
    THEN Done(0, <<>>, <<>>, <<>>, imgs)
    ELSE run_loaded(cfg, imgs, cfg.projects[name],
                    load_environment(cfg.projects[name].environment),
                    load_security(cfg.projects[name].security),
                    load_agent(cfg.projects[name].agent), build_ok, start_ok)

\* The request file as ensure_adapt_workspace writes it: baseImage: "",
\* fromImage: "", packages: [], commands: [].
TemplateRequest ==
    [ baseImage |-> Given(<<>>), base_image |-> Absent, fromImage |-> Given(<<>>),
      from_image |-> Absent, packages |-> Given(<<>>), extraPackages |-> Absent,
      commands |-> Given(<<>>), extraCommands |-> Absent ]

\* The request `skua adapt --clear` applies.
ClearRequest ==
    [ baseImage |-> Given(<<>>), base_image |-> Absent, fromImage |-> Given(<<>>),
      from_image |-> Absent, packages |-> Given(<<>>), extraPackages |-> Absent,
      commands |-> Given(<<>>), extraCommands |-> Absent ]

\* request_has_updates, on the normalized request
has_updates(req) ==
    \/ req.baseImage # <<>>
    \/ req.fromImage # <<>>
    \/ req.packages # <<>>
    \/ req.commands # <<>>

request_has_updates(request) == has_updates(normalize_image_request(request))

\* The command lines of skua adapt <name>, without request flags.
AdaptArgs ==
    { [ show_prompt |-> sp, discover |-> d, apply_only |-> ao,
        write_only |-> w, clear |-> c, build |-> b ] :
        sp \in {FALSE}, d \in BOOLEAN, ao \in {FALSE}, w \in BOOLEAN,
        c \in BOOLEAN, b \in {FALSE} }
    \cup { [ show_prompt |-> TRUE, discover |-> FALSE, apply_only |-> FALSE,
             write_only |-> FALSE, clear |-> FALSE, build |-> FALSE ],
           [ show_prompt |-> FALSE, discover |-> TRUE, apply_only |-> TRUE,
             write_only |-> FALSE, clear |-> FALSE, build |-> FALSE ],
           [ show_prompt |-> FALSE, discover |-> FALSE, apply_only |-> FALSE,
             write_only |-> FALSE, clear |-> TRUE, build |-> TRUE ] }

\* How the agent session of _run_agent_adapt_session ends, once the runtime
\* image is there: no auth files, the auth check container fails, the agent
\* container fails, or the agent finishes.
SessionOutcomes == {"no-auth", "authcheck-failed", "agent-failed", "ok"}

\* _run_agent_adapt_session after _ensure_runtime_image: builds and imgs
\* are what that left.
agent_session(builds, imgs, container, session) ==
    IF session = "no-auth" THEN Done(1, <<>>, builds, <<>>, imgs)
    ELSE IF session = "authcheck-failed"
    THEN Done(1, <<>>, builds, << container >>, imgs)
    ELSE Done(IF session = "ok" THEN 0 ELSE 1, <<>>, builds,
              << container, container >>, imgs)

\* _ensure_runtime_image when the image is missing, then the session.
session_with_build(b, container, session) ==
    IF ~b.record.success
    THEN Done(1, <<>>, << b.record >>, <<>>, b.images)
    ELSE agent_session(<< b.record >>, b.images, container, session)

session_with_image(cfg, imgs, project, sec, agent, image_name, build_ok, session) ==
    IF image_exists(imgs, image_name)
    THEN agent_session(<<>>, imgs, container_of(project, image_name), session)
    ELSE session_with_build(
             build_image(imgs, project, image_name,
                         security_or(default_security(cfg), sec), agent,
                         resolved_inputs(agent, project), build_ok),
             container_of(project, image_name), session)

\* _run_agent_adapt_session with _ensure_runtime_image.
run_agent_adapt_session(cfg, imgs, project, sec, agent, build_ok, session) ==
    session_with_image(cfg, imgs, project, sec, agent,
                       image_name_for_project(GlobalImageName, project),
                       build_ok, session)

\* _build_project_image, after the steps s of the command so far.
build_project_image_missing(s, b) ==
    Done(IF b.record.success THEN 0 ELSE 1, <<>>, Append(s.builds, b.record),
         s.containers, b.images)

build_project_image_named(cfg, s, project, agent, image_name, build_ok) ==
    IF image_exists(s.images, image_name)
    THEN s
    ELSE build_project_image_missing(s,
             build_image(s.images, project, image_name, default_security(cfg),
                         agent, resolved_inputs(agent, project), build_ok))

build_project_image(cfg, s, project, agent, build_ok) ==
    build_project_image_named(cfg, s, project, agent,
                              image_name_for_project(GlobalImageName, project),
                              build_ok)

\* cmd_adapt from the request on; s: the steps so far.
adapt_apply(cfg, s, project, agent, args, discover_mode, applied_request, build_ok) ==
    IF applied_request.ret /\ (args.build \/ discover_mode)
    THEN build_project_image(cfg, s,
                             [project EXCEPT !.image = applied_request.image],
                             agent, build_ok)
    ELSE s

adapt_request(cfg, s, project, agent, args, discover_mode, request, build_ok, answer) ==
    IF s.exit # 0 THEN s
    ELSE IF args.write_only THEN s
    ELSE IF ~args.clear /\ ~request_has_updates(request) THEN s
    ELSE IF answer = "n" THEN s
    ELSE adapt_apply(cfg, s, project, agent, args, discover_mode,
                     apply_image_request_to_project(project.image, request),
                     build_ok)

adapt_validated(cfg, imgs, project, sec, agent, args, discover_mode, build_ok, session, answer) ==
    adapt_request(cfg,
                  IF discover_mode
                  THEN run_agent_adapt_session(cfg, imgs, project, sec, agent,
                                               build_ok, session)
                  ELSE Done(0, <<>>, <<>>, <<>>, imgs),
                  project, agent, args, discover_mode,
                  IF args.clear THEN ClearRequest ELSE TemplateRequest,
                  build_ok, answer)

adapt_loaded(cfg, imgs, project, env, sec, agent, args, build_ok, session, answer) ==
    IF env.is = "none" THEN Exit1(imgs)
    ELSE IF env.v.mode # "unmanaged" THEN Exit1(imgs)
    ELSE IF sec.is = "none" \/ agent.is = "none" THEN Exit1(imgs)
    ELSE IF args.show_prompt THEN Done(0, <<>>, <<>>, <<>>, imgs)
    ELSE IF args.discover /\ args.apply_only THEN Exit1(imgs)
    ELSE IF ~valid(validate_project(project, env.v, sec.v, agent.v))
    THEN Exit1(imgs)
    ELSE adapt_validated(cfg, imgs, project, sec, agent.v, args,
                         args.discover /\ ~args.clear, build_ok, session, answer)

\* cmd_adapt for one project, without request flags; the request file holds
\* the template before and after the agent session; build_ok: the outcome of
\* the docker builds; answer: what the user answers when asked to approve
\* ("" when the terminal is not interactive).
cmd_adapt(cfg, imgs, name, args, build_ok, session, answer) ==
    adapt_loaded(cfg, imgs, cfg.projects[name],
                 load_environment(cfg.projects[name].environment),
                 load_security(cfg.projects[name].security),
                 load_agent(cfg.projects[name].agent),
                 args, build_ok, session, answer)

(***************************************************************************)
(* SpecCmd: one command, run on any configuration and on any images that   *)
(* earlier builds or the user left under the agents' image names.          *)
(***************************************************************************)

\* The images an earlier build_image left under the name of an agent: one
\* for each profile that was the default then.
EarlierImages(agent_name) ==
    { Image(Given(compute_build_context_hash(
          build_inputs(sec, AgentStore[agent_name],
                       [base_image |-> GlobalBaseImage, extra_packages |-> <<>>,
                        extra_commands |-> <<>>])))) :
      sec \in {Absent} \cup { Given(SecurityStore[n]) : n \in DOMAIN SecurityStore } }

ImageStores ==
    { [ n \in ImageNames |->
          IF n = image_name_for_agent(GlobalImageName, <<"claude">>) THEN c ELSE x ] :
      c \in {NoImage, Image(Absent)} \cup EarlierImages("claude"),
      x \in {NoImage, Image(Absent)} \cup EarlierImages("codex") }

NotRun ==
    [ cmd |-> "none", projects |-> {}, before |-> <<>>, exit |-> 0, matches |-> <<>>,
      builds |-> <<>>, containers |-> <<>> ]

Ran(cmd, projects, before, d) ==
    [ cmd |-> cmd, projects |-> projects, before |-> before, exit |-> d.exit,
      matches |-> d.matches, builds |-> d.builds, containers |-> d.containers ]

InitCmd ==
    /\ config \in Configs
    /\ images \in ImageStores
    /\ ran = NotRun
    /\ IdleValidate
    /\ IdleAdapt
    /\ IdleHash
    /\ IdleImage
    /\ IdleBuild
    /\ IdleDockerfile
    /\ IdleLater

CmdBuild ==
    /\ ran.cmd = "none"
    /\ \E ok \in [ImageNames -> BOOLEAN] :
         LET d == cmd_build(config, images, ok)
         IN  /\ images' = d.images
             /\ ran' = Ran("build", {"app", "lib"}, images, d)
    /\ UNCHANGED config
    /\ UNCHANGED notCmd

CmdRun ==
    /\ ran.cmd = "none"
    /\ \E name \in DOMAIN config.projects, running, build_ok, start_ok \in BOOLEAN :
         LET d == cmd_run(config, images, name, running, build_ok, start_ok)
         IN  /\ images' = d.images
             /\ ran' = Ran(IF running THEN "run-attach" ELSE "run", {name}, images, d)
    /\ UNCHANGED config
    /\ UNCHANGED notCmd

CmdAdapt ==
    /\ ran.cmd = "none"
    /\ \E name \in DOMAIN config.projects, args \in AdaptArgs, build_ok \in BOOLEAN,
          session \in SessionOutcomes, answer \in {"", "y", "n"} :
         LET d == cmd_adapt(config, images, name, args, build_ok, session, answer)
         IN  /\ images' = d.images
             /\ ran' = Ran(IF args.show_prompt THEN "adapt-show-prompt" ELSE "adapt",
                         {name}, images, d)
    /\ UNCHANGED config
    /\ UNCHANGED notCmd

NextCmd ==
    \/ CmdBuild
    \/ CmdRun
    \/ CmdAdapt

SpecCmd == InitCmd /\ [][NextCmd]_vars

(***************************************************************************)
(* C8: over any sequence of apply_image_request_to_project calls the       *)
(* image version never decreases or resets; a call adds exactly 1 and      *)
(* returns True if and only if the normalized request differs from the     *)
(* stored customization, and otherwise returns False and leaves every      *)
(* field of the project unchanged; applying again the request just         *)
(* applied is a no-op.                                                     *)
(***************************************************************************)
Stored(img) ==
    << img.base_image, img.from_image, img.extra_packages, img.extra_commands >>

C8_Step ==
    /\ image'.version >= image.version
    /\ applied'.ret = (applied'.request # Stored(image))
    /\ applied'.ret => /\ image'.version = image.version + 1
                       /\ Stored(image') = applied'.request
    /\ ~applied'.ret => image' = image
    /\ (applied.called /\ applied'.request = applied.request)
           => (~applied'.ret /\ image' = image)

C8_VersionMonotonic == [][C8_Step]_vars

\* A request that clears every customization was applied to a customized
\* project: the version went on to 2.
C8_Witness ==
    /\ applied.called
    /\ applied.ret
    /\ Stored(image) = << <<>>, <<>>, <<>>, <<>> >>
    /\ image.version = 2

(***************************************************************************)
(* Two fingerprints computed one after the other: `previous` from the      *)
(* inputs before the last change (or from the same inputs), `computed`     *)
(* from the present ones.                                                  *)
(***************************************************************************)
Pair == previous.known /\ computed.known

dockerfile_of(h) ==
    generate_dockerfile(h.agents, h.security, h.base_image,
                        h.extra_packages, h.extra_commands)

\* What _hash_with_marker feeds to the hasher for an optional value.
hashed(value) == IF value.is = "none" THEN <<MISSING>> ELSE value.v

\* The package lists and command lists given to the build.
lists_of(h) ==
    << [i \in 1..Len(h.agents) |-> h.agents[i].required_packages],
       h.extra_packages,
       [i \in 1..Len(h.agents) |-> h.agents[i].commands],
       h.extra_commands >>

(***************************************************************************)
(* C9 (as stated): the fingerprint is unchanged when recomputed from       *)
(* unchanged inputs, and it changes whenever the entrypoint bytes change,  *)
(* the build uid or gid changes, or any package list or command list       *)
(* given to the build changes.                                             *)
(***************************************************************************)
C9_AsStated ==
    Pair =>
      /\ (previous.inputs = computed.inputs) => (previous.hash = computed.hash)
      /\ (\/ previous.inputs.entrypoint # computed.inputs.entrypoint
          \/ previous.inputs.uid # computed.inputs.uid
          \/ previous.inputs.gid # computed.inputs.gid
          \/ lists_of(previous.inputs) # lists_of(computed.inputs))
             => (previous.hash # computed.hash)

(***************************************************************************)
(* C9 (amended): the fingerprint is unchanged when recomputed from         *)
(* unchanged inputs, and it changes whenever the bytes hashed for the      *)
(* entrypoint change (the bytes of the file, the text "<missing>" for an   *)
(* absent file), the build uid or gid changes, or a change of a package    *)
(* list or command list changes the generated Dockerfile (its              *)
(* deduplicated package block, its normalized and deduplicated install     *)
(* lines, its extra command lines).                                        *)
(***************************************************************************)
C9_FingerprintChanges ==
    Pair =>
      /\ (previous.inputs = computed.inputs) => (previous.hash = computed.hash)
      /\ (\/ hashed(previous.inputs.entrypoint) # hashed(computed.inputs.entrypoint)
          \/ previous.inputs.uid # computed.inputs.uid
          \/ previous.inputs.gid # computed.inputs.gid
          \/ dockerfile_of(previous.inputs) # dockerfile_of(computed.inputs))
             => (previous.hash # computed.hash)

\* The build uid changed, nothing else, and the fingerprint was recomputed.
C9_Witness ==
    /\ Pair
    /\ previous.inputs.uid # computed.inputs.uid
    /\ [previous.inputs EXCEPT !.uid = computed.inputs.uid] = computed.inputs
    /\ previous.hash # computed.hash

(***************************************************************************)
(* C10: for any fixed values of all other inputs, the fingerprint computed *)
(* with an optional asset absent (entrypoint script, settings.json,        *)
(* settings.local.json) differs from the fingerprint computed with that    *)
(* asset present, whatever the bytes of the asset are.                     *)
(***************************************************************************)
AbsentVersusPresent(a, b) ==
    \/ a.is = "none" /\ b.is = "value"
    \/ a.is = "value" /\ b.is = "none"

C10_AbsentNeverHashesAsPresent ==
    Pair =>
      /\ ( /\ AbsentVersusPresent(previous.inputs.entrypoint, computed.inputs.entrypoint)
           /\ [previous.inputs EXCEPT !.entrypoint = computed.inputs.entrypoint]
                  = computed.inputs )
             => (previous.hash # computed.hash)
      /\ ( /\ AbsentVersusPresent(previous.inputs.settings, computed.inputs.settings)
           /\ [previous.inputs EXCEPT !.settings = computed.inputs.settings]
                  = computed.inputs )
             => (previous.hash # computed.hash)
      /\ ( /\ AbsentVersusPresent(previous.inputs.settings_local,
                                  computed.inputs.settings_local)
           /\ [previous.inputs EXCEPT !.settings_local = computed.inputs.settings_local]
                  = computed.inputs )
             => (previous.hash # computed.hash)

(***************************************************************************)
(* C2: image_matches_build_context returns true if and only if the image   *)
(* carries a non-empty fingerprint label and that label equals the         *)
(* fingerprint recomputed from the current inputs; for an image with no    *)
(* fingerprint label, or whose label cannot be read, it returns false      *)
(* whatever the inputs are.                                                *)
(***************************************************************************)
CarriesFingerprintOf(reg, h) ==
    /\ reg.docker
    /\ reg.exists
    /\ reg.label.is = "value"
    /\ reg.label.v # <<>>
    /\ reg.label.v = compute_build_context_hash(h)

C2_Step ==
    (matched' # matched) =>
        (matched'.ret = CarriesFingerprintOf(registry', host'))

C2_MatchesIffLabelEqualsFingerprint == [][C2_Step]_vars

\* The image was built, an input changed afterwards, and the call answered
\* false for the image that carries the fingerprint of the former inputs.
C2_Witness ==
    /\ matched.called
    /\ ~matched.ret
    /\ registry.docker
    /\ registry.exists
    /\ registry.label.is = "value"
    /\ registry.label.v # <<>>
    /\ registry.label.v # compute_build_context_hash(host)

(***************************************************************************)
(* C6: on every exit path of build_image (successful build, failed         *)
(* external build, failure while writing the synthesized Dockerfile,       *)
(* failure while copying the entrypoint or settings assets), the           *)
(* build-context directory created for that attempt no longer exists when  *)
(* the call returns or raises.                                             *)
(***************************************************************************)
Ended(p) == call[p].pc \in {"returned", "raised"}

Using(p) ==
    /\ call[p].pc \in {"dockerfile", "entrypoint", "settings", "docker_build"}
    /\ ctx.exists
    /\ ctx.made_by = <<p, call[p].n>>

C7_Step ==
    \A p \in Callers :
        /\ (call'[p].built.is = "value") =>
               /\ call'[p].built.v.exists
               /\ call'[p].built.v.dockerfile = Given(dockerfile_content(p))
        /\ (Using(p) /\ call'[p] = call[p]) => (ctx' = ctx)

C7_ConcurrentBuildsIndependent == [][C7_Step]_vars

(***************************************************************************)
(* The command that ran, read from ran and config.                         *)
(***************************************************************************)

\* The project of the configuration a build or container record names.
Handled(p) == config.projects[p]

ImageOf(p) == image_name_for_project(GlobalImageName, Handled(p))

\* How many image_matches_build_context and build_image calls the command
\* made for the image name n.
MatchCalls(n) ==
    Cardinality({ i \in DOMAIN ran.matches : ran.matches[i].image_name = n })

BuildCalls(n) ==
    Cardinality({ i \in DOMAIN ran.builds : ran.builds[i].image_name = n })

\* The image under the name of project p, as it was before the command,
\* carries the fingerprint of the inputs cmd_build has for p.
MatchesInputs(p) ==
    \E out \in inspect_outcomes(ran.before[ImageOf(p)]) :
        image_matches_build_context(out,
            build_inputs(default_security(config), load_agent(Handled(p).agent).v,
                         resolved_inputs(load_agent(Handled(p).agent).v, Handled(p))))

\* cmd_build found the AgentConfig of every required project, and went
\* through the images.
BuildLoopReached ==
    /\ ran.cmd = "build"
    /\ \A p \in ran.projects : load_agent(Handled(p).agent).is = "value"

(***************************************************************************)
(* C3: cmd_build, for each required project image that already exists,     *)
(* evaluates image_matches_build_context exactly once against the current  *)
(* build inputs; when that is false the image is rebuilt by one build_image *)
(* call, and when it is true build_image is not called.                    *)
(***************************************************************************)
C3_ExistingImageComparedOnce ==
    BuildLoopReached =>
        \A p \in ran.projects :
            image_exists(ran.before, ImageOf(p)) =>
                /\ MatchCalls(ImageOf(p)) = 1
                /\ BuildCalls(ImageOf(p)) = IF MatchesInputs(p) THEN 0 ELSE 1

(***************************************************************************)
(* C4: when run, adapt or build handles a project whose Environment,       *)
(* SecurityProfile and AgentConfig resolve and validate_project reports an *)
(* error for them, the command exits non-zero and neither calls            *)
(* build_image nor starts a container for that project.  Attaching to a    *)
(* running container (run) and printing the prompt (adapt --show-prompt)   *)
(* end before anything is validated, built or started, and are not         *)
(* counted.                                                                *)
(***************************************************************************)
Resolves(p) ==
    /\ load_environment(Handled(p).environment).is = "value"
    /\ load_security(Handled(p).security).is = "value"
    /\ load_agent(Handled(p).agent).is = "value"

Invalid(p) ==
    ~valid(validate_project(Handled(p),
                            load_environment(Handled(p).environment).v,
                            load_security(Handled(p).security).v,
                            load_agent(Handled(p).agent).v))

C4_InvalidProjectRefused ==
    \A p \in ran.projects :
        (ran.cmd \in {"build", "run", "adapt"} /\ Resolves(p) /\ Invalid(p)) =>
            /\ ran.exit # 0
            /\ \A i \in DOMAIN ran.builds : ran.builds[i].project # Handled(p).name
            /\ \A i \in DOMAIN ran.containers :
                   ran.containers[i].project # Handled(p).name

(***************************************************************************)
(* C5: every build_image call of a command for a project is handed the     *)
(* SecurityProfile the project references, so the Dockerfile removes sudo  *)
(* exactly when that profile has agent.sudo = false.                       *)
(***************************************************************************)
C5_BuildUsesProjectProfile ==
    \A i \in DOMAIN ran.builds :
        \A p \in ran.projects :
            (ran.builds[i].project = Handled(p).name
             /\ load_security(Handled(p).security).is = "value") =>
                /\ ran.builds[i].security = load_security(Handled(p).security)
                /\ ran.builds[i].removes_sudo
                       = ~load_security(Handled(p).security).v.sudo

(***************************************************************************)
(* C11: validate_security_internal returns one error for each of these     *)
(* conditions that holds and no other error: install.mode verified with    *)
(* sudo; install.mode advisory or unrestricted without sudo; audit.mode    *)
(* trusted with outbound other than proxy; image_updates.source proxy with *)
(* audit.mode other than trusted.  The conditions install.mode none with   *)
(* sudo, outbound proxy with sudo, and image_updates.mode other than       *)
(* disabled with audit.mode none give a warning each, and no error.        *)
(***************************************************************************)
Rules(messages) == { messages[i].rule : i \in DOMAIN messages }

ErrorConditions(sec) ==
    { c \in { "verified-requires-no-sudo", "install-requires-sudo",
              "trusted-audit-requires-proxy", "proxy-source-requires-trusted-audit" } :
        \/ c = "verified-requires-no-sudo"
           /\ sec.install_mode = "verified" /\ sec.sudo
        \/ c = "install-requires-sudo"
           /\ sec.install_mode \in {"advisory", "unrestricted"} /\ ~sec.sudo
        \/ c = "trusted-audit-requires-proxy"
           /\ sec.audit_mode = "trusted" /\ sec.outbound # "proxy"
        \/ c = "proxy-source-requires-trusted-audit"
           /\ sec.updates_source = "proxy" /\ sec.audit_mode # "trusted" }

WarningConditions(sec) ==
    { c \in { "install-none-with-sudo", "proxy-with-sudo", "updates-without-audit" } :
        \/ c = "install-none-with-sudo" /\ sec.install_mode = "none" /\ sec.sudo
        \/ c = "proxy-with-sudo" /\ sec.outbound = "proxy" /\ sec.sudo
        \/ c = "updates-without-audit"
           /\ sec.updates_mode # "disabled" /\ sec.audit_mode = "none" }

C11_SecurityInternalRules ==
    result.op = "validate_security_internal" =>
        /\ Rules(result.errors) = ErrorConditions(security)
        /\ Len(result.errors) = Cardinality(ErrorConditions(security))
        /\ Rules(result.warnings) = WarningConditions(security)
        /\ Len(result.warnings) = Cardinality(WarningConditions(security))
        /\ Rules(result.errors) \cap Rules(result.warnings) = {}
        /\ (security.install_mode = "verified" /\ ~security.sudo)
               => "verified-requires-no-sudo" \notin Rules(result.errors)

\* A verified profile without sudo passes the first rule while another rule
\* reports an error.
C11_Witness ==
    /\ result.op = "validate_security_internal"
    /\ security.install_mode = "verified"
    /\ ~security.sudo
    /\ security.audit_mode = "trusted"
    /\ security.outbound = "none"
    /\ Len(result.errors) = 1

(***************************************************************************)
(* C12: validate_environment_internal returns an error if and only if mode *)
(* is managed and driver is docker; it returns a warning, and no error,    *)
(* when a container runtime override is set and the driver is neither      *)
(* docker nor compose, and when mode is unmanaged, driver docker and       *)
(* network.mode internal; in every other case it returns neither.          *)
(***************************************************************************)
ManagedOnDocker(env) == env.mode = "managed" /\ env.driver = "docker"

RuntimeIgnored(env) ==
    env.container_runtime # "" /\ env.driver \notin {"docker", "compose"}

InternalOnDocker(env) ==
    env.mode = "unmanaged" /\ env.driver = "docker" /\ env.network_mode = "internal"

C12_EnvironmentInternalRules ==
    result.op = "validate_environment_internal" =>
        /\ (result.errors # <<>>) = ManagedOnDocker(environment)
        /\ RuntimeIgnored(environment)
               => (result.warnings # <<>> /\ result.errors = <<>>)
        /\ InternalOnDocker(environment)
               => (result.warnings # <<>> /\ result.errors = <<>>)
        /\ ( /\ ~ManagedOnDocker(environment)
             /\ ~RuntimeIgnored(environment)
             /\ ~InternalOnDocker(environment) )
               => (result.errors = <<>> /\ result.warnings = <<>>)

\* A kata runtime on kubernetes: a warning and no error.
C12_Witness ==
    /\ result.op = "validate_environment_internal"
    /\ environment.driver = "kubernetes"
    /\ environment.container_runtime = "kata"
    /\ environment.mode = "managed"
    /\ Len(result.warnings) = 1
    /\ result.errors = <<>>

(***************************************************************************)
(* C13: capabilities(environment) is determined by the fields: network     *)
(* mode bridge gives internet and isolation, internal and none give        *)
(* isolation and internal, host gives internet only; mode managed adds     *)
(* sidecar, trusted-proxy, trusted-log and trusted-mcp and unmanaged none  *)
(* of them; sudo and no-sudo are always present; audit-docker-diff is      *)
(* present exactly when the driver is docker or compose and the cleanup    *)
(* policy of that driver is persistent.                                    *)
(***************************************************************************)
NetworkTokens == {"network.internet", "network.isolation", "network.internal"}
ManagedTokens == {"sidecar", "trusted.proxy", "trusted.log", "trusted.mcp"}

C13_CapabilitiesDerived ==
    result.op = "capabilities" =>
        /\ environment.network_mode = "bridge"
               => result.caps \cap NetworkTokens
                      = {"network.internet", "network.isolation"}
        /\ environment.network_mode \in {"internal", "none"}
               => result.caps \cap NetworkTokens
                      = {"network.isolation", "network.internal"}
        /\ environment.network_mode = "host"
               => result.caps \cap NetworkTokens = {"network.internet"}
        /\ environment.mode = "managed" => ManagedTokens \subseteq result.caps
        /\ environment.mode = "unmanaged" => ManagedTokens \cap result.caps = {}
        /\ {"container.sudo", "container.no-sudo"} \subseteq result.caps
        /\ ("audit.docker-diff" \in result.caps)
               = \/ environment.driver = "docker"
                    /\ environment.docker_cleanup = "persistent"
                 \/ environment.driver = "compose"
                    /\ environment.compose_cleanup = "persistent"

\* A managed compose environment on the host network whose compose cleanup
\* is persistent while the docker cleanup is not.
C13_Witness ==
    /\ result.op = "capabilities"
    /\ environment.network_mode = "host"
    /\ environment.mode = "managed"
    /\ environment.driver = "compose"
    /\ environment.compose_cleanup = "persistent"
    /\ environment.docker_cleanup = "ephemeral"
    /\ "audit.docker-diff" \in result.caps
    /\ "network.isolation" \notin result.caps

(***************************************************************************)
(* C14: as stated, capabilities(environment) holds the gVisor token        *)
(* exactly when the driver is docker or compose and the container runtime  *)
(* override is not the default (empty) one.                                *)
(***************************************************************************)
C14_AsStated ==
    result.op = "capabilities" =>
        ("isolation.gvisor" \in result.caps)
            = /\ environment.driver \in {"docker", "compose"}
              /\ environment.container_runtime # ""

(***************************************************************************)
(* C14, amended: capabilities(environment) holds the gVisor token exactly  *)
(* when the driver is docker or compose and the container runtime override *)
(* is runsc; with the default runtime, with another runtime such as kata,  *)
(* or with the kubernetes driver it does not.                              *)
(***************************************************************************)
C14_GvisorIffRunsc ==
    result.op = "capabilities" =>
        ("isolation.gvisor" \in result.caps)
            = /\ environment.driver \in {"docker", "compose"}
              /\ environment.container_runtime = "runsc"

\* The compose driver with the runsc override provides the token.
C14_Witness ==
    /\ result.op = "capabilities"
    /\ environment.driver = "compose"
    /\ environment.container_runtime = "runsc"
    /\ "isolation.gvisor" \in result.caps

(***************************************************************************)
(* C15: required_capabilities(security) holds internet exactly when        *)
(* outbound is unrestricted, isolation exactly when outbound is none,      *)
(* internal exactly when outbound is proxy, trusted-proxy exactly when     *)
(* outbound is proxy or install.mode is verified, trusted-log exactly when *)
(* audit.mode is trusted or image_updates.source is proxy, and no other    *)
(* token; agent.sudo has no part in it.                                    *)
(***************************************************************************)
C15_RequiredCapabilitiesUnion ==
    result.op = "required_capabilities" =>
        /\ result.caps \subseteq { "network.internet", "network.isolation",
                                   "network.internal", "trusted.proxy", "trusted.log" }
        /\ ("network.internet" \in result.caps) = (security.outbound = "unrestricted")
        /\ ("network.isolation" \in result.caps) = (security.outbound = "none")
        /\ ("network.internal" \in result.caps) = (security.outbound = "proxy")
        /\ ("trusted.proxy" \in result.caps)
               = (security.outbound = "proxy" \/ security.install_mode = "verified")
        /\ ("trusted.log" \in result.caps)
               = (security.audit_mode = "trusted" \/ security.updates_source = "proxy")

\* A profile without sudo whose tokens come from three of the rules.
C15_Witness ==
    /\ result.op = "required_capabilities"
    /\ ~security.sudo
    /\ security.outbound = "none"
    /\ security.install_mode = "verified"
    /\ security.updates_source = "proxy"
    /\ result.caps = {"network.isolation", "trusted.proxy", "trusted.log"}

(***************************************************************************)
(* C16: validate_project runs the four checks whatever the earlier ones    *)
(* returned: its errors are the errors of environment-internal,            *)
(* security-internal, environment-versus-security and                      *)
(* agent-versus-security, concatenated in this order; its warnings are     *)
(* their warnings in the same order, followed by one project-level warning *)
(* when the project has no directory; it is valid if and only if none of   *)
(* the four checks returned an error.                                      *)
(***************************************************************************)
Checks ==
    << validate_environment_internal(environment),
       validate_security_internal(security),
       validate_security_environment(security, environment),
       validate_agent_security(result.agent, security) >>

C17_NoDirectoryWarningWithRepo ==
    ( /\ result.op = "validate_project"
      /\ result.project.repo # ""
      /\ result.project.directory = "" )
        => \A i \in DOMAIN result.warnings : result.warnings[i].rule # "no-directory"

(***************************************************************************)
(* Reading a generated Dockerfile.                                         *)
(***************************************************************************)

\* The position of the first part equal to x, 0 when there is none.
IndexOf(seq, x) ==
    LET at == { i \in 1..Len(seq) : seq[i] = x }
    IN  IF at = {} THEN 0 ELSE CHOOSE i \in at : \A j \in at : i <= j

\* The package block: what stands between the apt-get install line and the
\* creation of the user.
PackageBlock(dockerfile) ==
    SubSeq(dockerfile, IndexOf(dockerfile, "apt-get install") + 1,
           IndexOf(dockerfile, "create user") - 1)

\* The packages handed to a call, before deduplication, in the order of
\* the claim.
RequestedPackages(k) ==
    CORE_PACKAGES \o DEFAULT_PACKAGES \o agent_packages(generated.agents)
    \o generated.calls[k].extra_packages

Before(seq, p, q) == IndexOf(seq, p) < IndexOf(seq, q)

(***************************************************************************)
(* C18: the package block of a generated Dockerfile holds every package of *)
(* the concatenation of the baseline packages, the default packages, the   *)
(* required packages of each agent in call order and the extra packages,   *)
(* each once, in the order of their first occurrences in it; it is never   *)
(* sorted.                                                                 *)
(***************************************************************************)
C18_PackagesFirstOccurrenceOrder ==
    \A k \in DOMAIN generated.calls :
        LET block     == PackageBlock(generated.calls[k].dockerfile)
            requested == RequestedPackages(k)
        IN  /\ \A i, j \in DOMAIN block : (block[i] = block[j]) => (i = j)
            /\ { block[i] : i \in DOMAIN block }
                   = { requested[i] : i \in DOMAIN requested }
            /\ \A i \in 1..(Len(block) - 1) :
                   Before(requested, block[i], block[i + 1])

\* A call whose agents and extra packages name packages more than once,
\* and whose new packages are not in alphabetical order.
C18_Witness ==
    \E k \in DOMAIN generated.calls :
        LET block == PackageBlock(generated.calls[k].dockerfile)
        IN  /\ generated.calls[k].extra_packages = << "fd", "nodejs", "fd" >>
            /\ Len(generated.agents) = 2
            /\ generated.agents[1].name = "codex"
            /\ Len(block) < Len(RequestedPackages(k)) - 2
            /\ Before(block, "jq", "nodejs")
            /\ Before(block, "npm", "fd")

(***************************************************************************)
(* C19: as stated, a call with the extra packages git, jq and a later call *)
(* with jq, git, for the same agents and SecurityProfile, give package     *)
(* blocks with git before jq in the first and jq before git in the second. *)
(***************************************************************************)
C19_AsStated ==
    \A k, l \in DOMAIN generated.calls :
        ( /\ k < l
          /\ generated.calls[k].extra_packages = << "git", "jq" >>
          /\ generated.calls[l].extra_packages = << "jq", "git" >> )
            => /\ Before(PackageBlock(generated.calls[k].dockerfile), "git", "jq")
               /\ Before(PackageBlock(generated.calls[l].dockerfile), "jq", "git")

(***************************************************************************)
(* C19, amended: two extra packages that are in none of the baseline,      *)
(* default and agent-required lists stand in the package block of each     *)
(* call in the order that call named them, whatever the order an earlier   *)
(* call named them in; git and jq, which the baseline and the default      *)
(* lists hold, stand with git before jq in both calls.                     *)
(***************************************************************************)
Preinstalled(p) ==
    Contains(CORE_PACKAGES \o DEFAULT_PACKAGES \o agent_packages(generated.agents), p)

C19_CallOrderOfNewPackages ==
    \A k \in DOMAIN generated.calls :
        LET extra == generated.calls[k].extra_packages
            block == PackageBlock(generated.calls[k].dockerfile)
        IN  /\ \A i, j \in DOMAIN extra :
                   ( /\ ~Preinstalled(extra[i])
                     /\ ~Preinstalled(extra[j])
                     /\ Before(extra, extra[i], extra[j]) )
                       => Before(block, extra[i], extra[j])
            /\ Before(block, "git", "jq")

\* ripgrep, fd in one call and fd, ripgrep in the next, each kept in the
\* order of its call; git, jq and then jq, git with git first both times.
C19_Witness ==
    /\ Len(generated.calls) = 2
    /\ generated.calls[1].extra_packages = << "ripgrep", "fd" >>
    /\ generated.calls[2].extra_packages = << "fd", "ripgrep" >>
    /\ ~Preinstalled("fd")
    /\ Before(PackageBlock(generated.calls[1].dockerfile), "ripgrep", "fd")
    /\ Before(PackageBlock(generated.calls[2].dockerfile), "fd", "ripgrep")

(***************************************************************************)
(* C20: a generated Dockerfile holds the step that removes sudo if and     *)
(* only if a SecurityProfile is supplied and its agent.sudo is false; the  *)
(* step then comes after every agent install command and every extra       *)
(* command, and before the entrypoint step.                                *)
(***************************************************************************)
C20_SudoRemovedIffNoSudo ==
    \A k \in DOMAIN generated.calls :
        LET dockerfile == generated.calls[k].dockerfile
            at         == IndexOf(dockerfile, "remove sudo")
        IN  /\ (at # 0) = /\ generated.security.is = "value"
                          /\ ~generated.security.v.sudo
            /\ (at # 0) =>
                   /\ \A i \in DOMAIN dockerfile : (dockerfile[i] = "RUN") => (i < at)
                   /\ Cardinality({ i \in DOMAIN dockerfile : dockerfile[i] = "RUN" })
                          >= 1 + Len(generated.calls[k].extra_commands)
                   /\ at < IndexOf(dockerfile, "COPY entrypoint.sh")
                   /\ Cardinality({ i \in DOMAIN dockerfile :
                                        dockerfile[i] = "remove sudo" }) = 1

\* A profile without sudo, two agents and two extra commands: the step
\* follows all four RUN lines.
C20_Witness ==
    \E k \in DOMAIN generated.calls :
        /\ generated.security = Given([sudo |-> FALSE])
        /\ Len(generated.agents) = 2
        /\ generated.calls[k].extra_commands = << "make", "npm ci" >>
        /\ Cardinality({ i \in DOMAIN generated.calls[k].dockerfile :
                             generated.calls[k].dockerfile[i] = "RUN" }) = 4
        /\ IndexOf(generated.calls[k].dockerfile, "remove sudo") # 0

(***************************************************************************)
(* SpecName: the image names of skua/docker.py derived once, from every    *)
(* base image name, agent name and project of the sets below; and the      *)
(* names cmd_build derives for two projects of one store in one            *)
(* invocation.                                                             *)
(***************************************************************************)

\* imageName of global.yaml: unset, the default, padded, with a tag, with a
\* registry host:port, with both, already carrying an agent suffix.
BaseNames ==
    { <<>>,
      SkuaBase,
      << " ", "skua", "-", "base", " " >>,
      << "myorg", "/", "skua", "-", "base", ":", "latest" >>,
      << "localhost", ":", "5000", "/", "skua", "-", "base" >>,
      << "localhost", ":", "5000", "/", "skua", "-", "base", ":", "v2" >>,
      << "skua", "-", "base", "-", "codex" >>,
      << "skua", "-", "base", "-", "codex", ":", "latest" >>,
      << "skua", "-", "base", ":" >> }

\* Agent names: unset, the two of the store, padded, with a hyphen.
AgentNames ==
    { <<>>, << "claude" >>, << "codex" >>, << " ", "codex" >>, << "my", "-", "agent" >> }

\* Project names that `skua add` accepts (alphanumeric, "-" and "_").
NamedProjectNames ==
    { << "app" >>, << "app", "-" >>, << "-", "app" >>, << "lib" >>,
      << "my", "_", "proj" >> }

\* project.image as the program stores it: strings stripped, lists of
\* stripped values.
StoredImages ==
    [ base_image     : { <<>>, << "x" >> },
      from_image     : { <<>>, << "y" >> },
      extra_packages : { <<>>, << << "x" >> >> },
      extra_commands : { <<>>, << << "x" >> >> },
      version        : 0..MaxVersion ]

NamedProjects ==
    [ name : NamedProjectNames, agent : { "", "claude", "codex" }, image : StoredImages ]

\* The projects of a store with several projects, as `skua add` and
\* `skua adapt` leave them: a customization has been applied at least once.
StoreImages ==
    { i \in StoredImages :
        /\ i.from_image = <<>> /\ i.extra_commands = <<>>
        /\ i.version < MaxVersion
        /\ (i.base_image # <<>> \/ i.extra_packages # <<>>) => i.version >= 1 }

StoreProjectNames == { << "app" >>, << "app", "-" >>, << "lib" >> }

StoreProjects ==
    [ name : StoreProjectNames, agent : { "claude", "codex" }, image : StoreImages ]

StoreBaseNames ==
    { SkuaBase,
      << "myorg", "/", "skua", "-", "base", ":", "latest" >>,
      << "localhost", ":", "5000", "/", "skua", "-", "base" >> }

NotNamed == [ op |-> "none" ]

InitName ==
    /\ named = NotNamed
    /\ IdleEarlier
    /\ IdleEncode /\ IdleAdaptCmd /\ IdleRemove /\ IdleTransport

\* image_name_for_agent(base, agent), and the function applied to its own
\* result with the same agent.
ImageNameForAgent ==
    \E base \in BaseNames, agent \in AgentNames :
        /\ named.op = "none"
        /\ named' = [ op    |-> "image_name_for_agent",
                      base  |-> base,
                      agent |-> agent,
                      once  |-> image_name_for_agent(base, agent),
                      twice |-> image_name_for_agent(
                                    image_name_for_agent(base, agent), agent) ]
        /\ UNCHANGED notName

\* image_name_for_project(base, project)
ImageNameForProject ==
    \E base \in BaseNames, project \in NamedProjects :
        /\ named.op = "none"
        /\ named' = [ op      |-> "image_name_for_project",
                      base    |-> base,
                      project |-> project,
                      tag     |-> image_name_for_project(base, project) ]
        /\ UNCHANGED notName

\* What the loop of cmd_build passes to build_image for a project.
loop_inputs(project) ==
    resolve_project_image_inputs(text(GlobalBaseImage), AgentStore[project.agent], project, <<>>, <<>>)

\* The loop of cmd_build over two projects of one store: the image name of
\* each, whether the second is skipped as already seen, and the agent and
\* build inputs each resolves to.
BuildLoopNames ==
    \E base \in StoreBaseNames, p \in StoreProjects, q \in StoreProjects :
        /\ named.op = "none"
        /\ p.name # q.name
        /\ named' = [ op       |-> "cmd_build",
                      base     |-> base,
                      projects |-> << p, q >>,
                      names    |-> << image_name_for_project(base, p),
                                      image_name_for_project(base, q) >>,
                      skipped  |-> image_name_for_project(base, q)
                                   = image_name_for_project(base, p),
                      agents   |-> << AgentStore[p.agent].name, AgentStore[q.agent].name >>,
                      inputs   |-> << loop_inputs(p), loop_inputs(q) >> ]
        /\ UNCHANGED notName

NextName == ImageNameForAgent \/ ImageNameForProject \/ BuildLoopNames

SpecName == InitName /\ [][NextName]_vars

\* ---- C21 ----
\* base, stripped and defaulted as image_name_for_agent reads it.
NameOr(s, default) == IF strip(s) = <<>> THEN default ELSE strip(s)

\* ref is repo followed by tag, where tag is empty or starts at a colon that
\* has no colon and no slash after it.
SplitsAt(ref, repo, tag) ==
    /\ ref = repo \o tag
    /\ \/ /\ tag = <<>>
          /\ \A i \in 1..Len(ref) :
                ref[i] = ":" => \E j \in (i + 1)..Len(ref) : ref[j] = "/"
       \/ /\ tag # <<>>
          /\ tag[1] = ":"
          /\ \A i \in 2..Len(tag) : tag[i] \notin { ":", "/" }

\* The repository and the tag of a reference.
RepoTag(ref) ==
    CHOOSE rt \in { << SubSeq(ref, 1, k), SubSeq(ref, k + 1, Len(ref)) >> : k \in 0..Len(ref) } :
        SplitsAt(ref, rt[1], rt[2])

\* C21: image_name_for_agent splits the base into repository and tag at the
\* last colon only when that colon is after the last slash, and returns
\* repository + "-" + agent + tag; when the repository already ends with
\* "-" + agent it returns the base unchanged; applying it twice with the same
\* agent gives what applying it once gives.
C21_AgentNameSplitAndIdempotent ==
    named.op = "image_name_for_agent" =>
        LET base  == NameOr(named.base, SkuaBase)
            agent == NameOr(named.agent, << "claude" >>)
            rt    == RepoTag(base)
        IN  /\ \E k \in 0..Len(base) :
                  SplitsAt(base, SubSeq(base, 1, k), SubSeq(base, k + 1, Len(base)))
            /\ IF endswith(rt[1], << "-" >> \o agent)
               THEN named.once = base
               ELSE named.once = rt[1] \o << "-" >> \o agent \o rt[2]
            /\ named.twice = named.once

\* C21 witness: a base with a registry host:port and no tag got the suffix
\* at its end, and the second application changed nothing.
C21_Witness ==
    /\ named.op = "image_name_for_agent"
    /\ named.base = << "localhost", ":", "5000", "/", "skua", "-", "base" >>
    /\ named.agent = << "codex" >>
    /\ named.once = << "localhost", ":", "5000", "/", "skua", "-", "base", "-", "codex" >>
    /\ named.twice = named.once

\* ---- C22 ----
\* One of the four customization fields of the project's image is set.
AnyFieldSet(project) ==
    \/ project.image.base_image # <<>>
    \/ project.image.from_image # <<>>
    \/ project.image.extra_packages # <<>>
    \/ project.image.extra_commands # <<>>

\* The per-agent tag of the project's agent.
AgentTag(base, project) ==
    image_name_for_agent(base, IF project.agent = "" THEN << "claude" >> ELSE << project.agent >>)

\* The image version normalized up to at least 1, as text.
NormalizedVersion(project) ==
    str(IF project.image.version >= 1 THEN project.image.version ELSE 1)

\* A project name without the hyphens and dots at its ends.
Core(name) ==
    LET keep  == { i \in 1..Len(name) : name[i] \notin { "-", "." } }
        first == CHOOSE i \in keep : \A j \in keep : i <= j
        last  == CHOOSE i \in keep : \A j \in keep : j <= i
    IN  IF keep = {} THEN << "project" >> ELSE SubSeq(name, first, last)

\* The tag of a project under the naming rule, part being the text that
\* stands for the project's name.
RuleTag(base, project, part) ==
    LET rt == RepoTag(AgentTag(base, project))
    IN  IF AnyFieldSet(project)
        THEN rt[1] \o << "-" >> \o part \o << "-", "v" >> \o NormalizedVersion(project) \o rt[2]
        ELSE AgentTag(base, project)

ProjectWith(name, agent, img) == [ name |-> name, agent |-> agent, image |-> img ]

\* The step of one apply_image_request_to_project call that returned True
\* on a project customized before and after it.
ChangedCustomization ==
    /\ applied'.called
    /\ applied'.ret
    /\ project_has_image_customizations(ProjectWith(<< "app" >>, "claude", image))
    /\ project_has_image_customizations(ProjectWith(<< "app" >>, "claude", image'))

\* C28: whenever apply_image_request_to_project returns True for a project
\* that has image customizations both before and after the call,
\* image_name_for_project returns a different tag after the call than
\* before it, under a base image name without and with a tag.
C28_Step ==
    ChangedCustomization =>
        \A base \in { SkuaBase, << "myorg", "/", "skua", "-", "base", ":", "latest" >> } :
            image_name_for_project(base, ProjectWith(<< "app" >>, "claude", image'))
                # image_name_for_project(base, ProjectWith(<< "app" >>, "claude", image))

NamedApart ==
    LET p == named.projects[1]
        q == named.projects[2]
    IN  \/ p.agent # q.agent
        \/ /\ AnyFieldSet(p)
           /\ AnyFieldSet(q)
           /\ \/ p.name # q.name
              \/ NormalizedVersion(p) # NormalizedVersion(q)

\* C29: for a fixed base image name, two projects that differ in agent, or
\* that are both customized and differ in project name or normalized image
\* version, never receive the same tag from image_name_for_project; and a
\* project that cmd_build skips because its tag was already seen resolves
\* to the agent and the build inputs of the project the tag was built for.
C29_TagsCollisionFree ==
    named.op = "cmd_build" =>
        /\ NamedApart => named.names[1] # named.names[2]
        /\ named.skipped => /\ named.agents[1] = named.agents[2]
                            /\ named.inputs[1] = named.inputs[2]

\* ---- C26 ----
\* What image_matches_build_context returns for the image under the tag and
\* the inputs h, whatever docker's inspect answers for a missing label.
ReturnsTrue(reg, h) ==
    \A out \in inspect_outcomes(reg) : image_matches_build_context(out, h)

ReturnsFalse(reg, h) ==
    \A out \in inspect_outcomes(reg) : ~image_matches_build_context(out, h)

\* The step changes no fingerprint input, or none that the fingerprint shows.
SameFingerprint ==
    compute_build_context_hash(host') = compute_build_context_hash(host)

\* C26 as stated: once the image is stale, image_matches_build_context is
\* false until build_image succeeds again.
C26_StaleUntilRebuilt_Step ==
    (LabelledFor(registry, host) /\ ReturnsFalse(registry, host) /\ ~BuildImage)
        => ReturnsFalse(registry', host')

C26_AsStated == [][C26_StaleUntilRebuilt_Step]_vars

\* C26: immediately after build_image succeeds, image_matches_build_context
\* is true, and it stays true while no step changes the fingerprint of the
\* inputs or the image under the tag; a change of input that changes the
\* fingerprint makes it false; while it is false it stays false as long as
\* the fingerprint of the inputs stays what it is and no build_image
\* succeeds; a failed build never makes it true.
Lifecycle(true_before, false_before, true_after, false_after, same_fingerprint) ==
    /\ BuildImage => true_after
    /\ (true_before /\ registry' = registry /\ same_fingerprint) => true_after
    /\ (true_before /\ registry' = registry /\ ~same_fingerprint) => false_after
    /\ (false_before /\ ~BuildImage /\ same_fingerprint) => false_after
    /\ BuildImageFails => (true_after => true_before)

\* Steps that touch neither the inputs, nor the image, nor build anything
\* (the fingerprint computed, the match asked) change none of the above.
C26_Step ==
    (host' # host \/ registry' # registry \/ built' # built) =>
    Lifecycle(ReturnsTrue(registry, host), ReturnsFalse(registry, host),
              ReturnsTrue(registry', host'), ReturnsFalse(registry', host'),
              SameFingerprint)

C26_ImageLifecycle == [][C26_Step]_vars

\* C26 witness: build_image succeeded over an image that carried the
\* fingerprint of other inputs, and the new image matches the inputs as
\* they are after two changes.
C26_Witness ==
    /\ built.called
    /\ built.ok
    /\ built.over_stale
    /\ edits = MaxEdits
    /\ ReturnsTrue(registry, host)

(***************************************************************************)
(* SpecEncode: the bytes compute_build_context_hash feeds to the hasher,   *)
(* for two different tuples of what it hashes.                             *)
(***************************************************************************)

\* The bytes fed to the hasher for a build description text, the entrypoint
\* bytes or None, the uid, the gid and the bytes or None of the two
\* settings files.
hasher_input(t) ==
    hash_with_marker("version", Given(<<"v1">>))
    \o hash_with_marker("dockerfile", Given(t.dockerfile))
    \o hash_with_marker("entrypoint", t.entrypoint)
    \o hash_with_marker("uid", Given(str(t.uid)))
    \o hash_with_marker("gid", Given(str(t.gid)))
    \o hash_with_marker("claude-default:settings.json", t.settings)
    \o hash_with_marker("claude-default:settings.local.json", t.settings_local)

\* File contents: no file, plain bytes, the bytes "<missing>", and bytes
\* that hold the NUL delimiter and the marker of the segment that follows.
LocalMarker == << NUL, "claude-default:settings.local.json", NUL >>

SettingsFiles ==
    { Absent, Given(<< "a" >>), Given(<< MISSING >>),
      Given(<< "a" >> \o LocalMarker \o << "b" >>) }

SettingsLocalFiles ==
    { Absent, Given(<< "c" >>), Given(<< MISSING >>),
      Given(<< "b" >> \o LocalMarker \o << "c" >>) }

HashedTuples ==
    [ dockerfile     : { generate_dockerfile(<<>>, Absent, "debian:bookworm-slim", <<>>, <<>>),
                         generate_dockerfile(<<>>, Absent, "ubuntu:24.04", <<>>, <<>>) },
      entrypoint     : { Absent, Given(<< "a" >>) },
      uid            : { 1000, 1001 },
      gid            : { 1000 },
      settings       : SettingsFiles,
      settings_local : SettingsLocalFiles ]

NotEncoded == [ op |-> "none" ]

InitEncode ==
    /\ encoded = NotEncoded
    /\ IdleEarlier
    /\ IdleName /\ IdleAdaptCmd /\ IdleRemove /\ IdleTransport

\* The hasher fed for one tuple, then for another one.
Encode ==
    \E first \in HashedTuples, second \in HashedTuples :
        /\ encoded.op = "none"
        /\ first # second
        /\ encoded' = [ op     |-> "encode",
                        first  |-> first,
                        second |-> second,
                        bytes  |-> << hasher_input(first), hasher_input(second) >> ]
        /\ UNCHANGED notEncode

NextEncode == Encode

SpecEncode == InitEncode /\ [][NextEncode]_vars

\* ---- C30 ----
\* C30: the marker-delimited byte sequence fed to the hash is an injective
\* encoding of its inputs: two different tuples (build description text,
\* entrypoint bytes or absent, uid, gid, settings.json bytes or absent,
\* settings.local.json bytes or absent) never produce the same byte
\* sequence, also when file bytes hold the NUL delimiter or the text of a
\* later segment marker.
C30_EncodingInjective ==
    encoded.op = "encode" =>
        (encoded.first # encoded.second => encoded.bytes[1] # encoded.bytes[2])

(***************************************************************************)
(* SpecAdaptCmd: `skua adapt <name>` run several times on one project that *)
(* resolves and validates (unmanaged environment, known security profile   *)
(* and agent), with its request file .skua/image-request.yaml. The agent   *)
(* session and the image build are taken as calls: what they do inside is  *)
(* in SpecCmd.                                                             *)
(***************************************************************************)

\* The commands run on the project.
MaxAdaptCmds == 2

\* A request document with the four keys of the template.
Doc(base_image, from_image, packages, commands) ==
    [ baseImage |-> Given(base_image), base_image |-> Absent,
      fromImage |-> Given(from_image), from_image |-> Absent,
      packages |-> Given(packages), extraPackages |-> Absent,
      commands |-> Given(commands), extraCommands |-> Absent ]

\* The request file: its document, its status and its appliedVersion key.
RequestFile(doc, status, version) ==
    [ doc |-> doc, status |-> status, appliedVersion |-> version ]

\* The file ensure_adapt_workspace writes when there is none.
TemplateFile == RequestFile(TemplateRequest, "draft", Absent)

\* Request files as a user or the agent writes them: a parent image with
\* packages and a command, one package, padded and repeated values, the
\* alternative key base_image.
ReadyDocs ==
    { Doc(<<>>, << "x" >>, << << "x" >>, << "y" >> >>, << << "x" >> >>),
      Doc(<<>>, <<>>, << << "x" >> >>, <<>>),
      Doc(<< " ", "y" >>, <<>>, << << "x" >>, << "x", " " >> >>, <<>>),
      [ TemplateRequest EXCEPT !.baseImage = Absent, !.base_image = Given(<< "y" >>) ] }

ReadyFiles == { RequestFile(doc, "ready", Absent) : doc \in ReadyDocs }

\* write_applied_image_request that leaves appliedVersion out.
write_applied_image_request_NoVersion(request, version) ==
    LET req == normalize_image_request(request)
    IN  RequestFile(Doc(req.baseImage, req.fromImage, req.packages, req.commands),
                    "applied", Absent)

\* write_applied_image_request: the file it leaves.
write_applied_image_request(request, version) ==
    LET req == normalize_image_request(request)
    IN  RequestFile(Doc(req.baseImage, req.fromImage, req.packages, req.commands),
                    "applied", Given(version))

\* _request_from_flags: None without --base-image, --from-image, --package
\* and --extra-command.
FlagRequests == { Absent, Given(Doc(<< "y" >>, <<>>, << << "y" >> >>, <<>>)) }

\* The command lines of skua adapt <name>.
AdaptLine(discover, apply_only, show_prompt, clear, write_only, build, flags) ==
    [ discover |-> discover, apply_only |-> apply_only, show_prompt |-> show_prompt,
      clear |-> clear, write_only |-> write_only, build |-> build, flags |-> flags ]

AdaptLines ==
    { AdaptLine(d, ao, FALSE, FALSE, FALSE, b, f) :
        d \in BOOLEAN, ao \in BOOLEAN, b \in BOOLEAN, f \in FlagRequests }
    \cup { AdaptLine(d, FALSE, FALSE, c, w, FALSE, Absent) :
             d \in BOOLEAN, c \in BOOLEAN, w \in BOOLEAN }
    \cup { AdaptLine(FALSE, FALSE, TRUE, FALSE, FALSE, FALSE, Absent) }

\* What the command meets: the terminal (not interactive, or the answer to
\* the approval prompt), how the agent session ends (sys.exit, or the file
\* it leaves: None for the file as it was) and whether the build succeeds.
Terminals == { "not-a-tty", "", "n" }
SessionEnds == { [exit |-> TRUE, file |-> Absent], [exit |-> FALSE, file |-> Absent] }
               \cup { [exit |-> FALSE, file |-> Given(f)] : f \in ReadyFiles }

\* The state a command leaves: the project in the store, the request file,
\* the calls made in order, the exit status, what
\* apply_image_request_to_project returned and the request it was given.
Left(stored, file, steps, exit, changed) ==
    [ stored |-> stored, file |-> file, steps |-> steps, exit |-> exit,
      changed |-> changed, request |-> Absent ]

\* cmd_adapt from `should_build` on.
adapt_build(s, should_build, build_ok) ==
    IF should_build /\ s.changed
    THEN [ s EXCEPT !.steps = Append(s.steps, "_build_project_image"),
                    !.exit = IF build_ok THEN 0 ELSE 1 ]
    ELSE s

\* cmd_adapt after apply_image_request_to_project returned r: the project
\* is saved and the request file rewritten when it changed.
adapt_save(s, r, request, from_file) ==
    IF ~r.ret
    THEN [ Left(s.stored, s.file, Append(s.steps, "apply_image_request_to_project"), 0, FALSE)
             EXCEPT !.request = Given(request) ]
    ELSE [ Left(r.image,
                IF from_file THEN write_applied_image_request(request, r.image.version)
                ELSE s.file,
                s.steps \o << "apply_image_request_to_project", "save_resource" >>
                        \o (IF from_file THEN << "write_applied_image_request" >> ELSE <<>>),
                0, TRUE)
             EXCEPT !.request = Given(request) ]

\* cmd_adapt from the request on.
adapt_with_request(s, args, discover_mode, request, from_file, terminal, build_ok) ==
    IF args.write_only THEN s
    ELSE IF ~args.clear /\ ~request_has_updates(request) THEN s
    ELSE IF terminal = "n" THEN s
    ELSE adapt_build(adapt_save(s, apply_image_request_to_project(s.stored,
                                       IF args.clear THEN ClearRequest ELSE request),
                                IF args.clear THEN ClearRequest ELSE request, from_file),
                     args.build \/ discover_mode, build_ok)

\* cmd_adapt from the choice of the request on: the flags, or the file.
adapt_load(s, args, discover_mode, terminal, build_ok) ==
    IF s.exit # 0 THEN s
    ELSE IF args.flags.is = "value"
    THEN adapt_with_request(s, args, discover_mode, args.flags.v, FALSE, terminal, build_ok)
    ELSE adapt_with_request(Left(s.stored, s.file, Append(s.steps, "load_image_request"),
                                 0, FALSE),
                            args, discover_mode, s.file.doc, TRUE, terminal, build_ok)

\* cmd_adapt from discover_mode on: the agent session runs in discover mode
\* only.
adapt_discover(s, args, discover_mode, session, terminal, build_ok) ==
    IF discover_mode
    THEN adapt_load(Left(s.stored,
                         IF session.file.is = "value" THEN session.file.v ELSE s.file,
                         Append(s.steps, "_run_agent_adapt_session"),
                         IF session.exit THEN 1 ELSE 0, FALSE),
                    args, discover_mode, terminal, build_ok)
    ELSE adapt_load(s, args, discover_mode, terminal, build_ok)

\* cmd_adapt for a project that resolves and validates.
cmd_adapt_valid(stored, file, args, session, terminal, build_ok) ==
    IF args.show_prompt THEN Left(stored, file, <<>>, 0, FALSE)
    ELSE IF args.discover /\ args.apply_only THEN Left(stored, file, <<>>, 1, FALSE)
    ELSE adapt_discover(Left(stored, file, <<>>, 0, FALSE), args,
                        args.discover /\ args.flags.is = "none" /\ ~args.clear,
                        session, terminal, build_ok)

NotAdapted == [ n |-> 0 ]

InitAdaptCmd ==
    /\ \E file \in { TemplateFile } \cup ReadyFiles :
         adapting = [ stored |-> DefaultImage, file |-> file, last |-> NotAdapted ]
    /\ IdleEarlier
    /\ IdleName /\ IdleEncode /\ IdleRemove /\ IdleTransport

\* The record of a command: its number, its command line, the project and the
\* file it found, and what it left.
CmdAdaptValid ==
    \E args \in AdaptLines, session \in SessionEnds, terminal \in Terminals, build_ok \in BOOLEAN :
        /\ adapting.last.n < MaxAdaptCmds
        /\ adapting' =
             LET left == cmd_adapt_valid(adapting.stored, adapting.file, args,
                                         session, terminal, build_ok)
             IN  [ stored |-> left.stored,
                   file   |-> left.file,
                   last   |-> [ n       |-> adapting.last.n + 1,
                                args    |-> args,
                                before  |-> adapting.stored,
                                steps   |-> left.steps,
                                exit    |-> left.exit,
                                changed |-> left.changed,
                                request |-> left.request ] ]
        /\ UNCHANGED notAdaptCmd

\* The request file edited between two commands, by the user or an agent.
WriteRequestFile ==
    /\ adapting.last.n < MaxAdaptCmds
    /\ \E file \in ReadyFiles :
         /\ file # adapting.file
         /\ adapting' = [ adapting EXCEPT !.file = file ]
    /\ UNCHANGED notAdaptCmd

NextAdaptCmd == CmdAdaptValid \/ WriteRequestFile

SpecAdaptCmd == InitAdaptCmd /\ [][NextAdaptCmd]_vars

\* ---- C23 ----
\* The position of a call among the calls of the last command, 0 when it
\* was not made; how many times it was made.
CallAt(name) == IndexOf(adapting.last.steps, name)

CallCount(name) ==
    Cardinality({ i \in 1..Len(adapting.last.steps) : adapting.last.steps[i] = name })

\* The last command read the request file and applied what it read, and
\* that differed from the stored customization.
AppliedFromFile ==
    /\ adapting.last.n > 0
    /\ adapting.last.args.flags.is = "none"
    /\ ~adapting.last.args.clear
    /\ CallAt("load_image_request") > 0
    /\ CallAt("apply_image_request_to_project") > CallAt("load_image_request")
    /\ adapting.last.request.is = "value"
    /\ desired_of(normalize_image_request(adapting.last.request.v))
           # Stored(adapting.last.before)

\* C23: after cmd_adapt applies an image request read from the project's
\* request file that differs from the stored customization, the saved
\* project holds the request's base image, from image, packages and
\* commands, its image version is one more than before, and the request
\* file has status "applied" and appliedVersion equal to the project's new
\* image version.
AppliedRequestSavedAndMarked ==
    AppliedFromFile =>
        /\ Stored(adapting.stored)
               = desired_of(normalize_image_request(adapting.last.request.v))
        /\ adapting.stored.version = adapting.last.before.version + 1
        /\ adapting.file.status = "applied"
        /\ adapting.file.appliedVersion = Given(adapting.stored.version)
        /\ CallCount("save_resource") = 1
        /\ CallCount("write_applied_image_request") = 1

\* The step is a run of the command.
CommandRan == adapting'.last.n = adapting.last.n + 1

C23_Step == CommandRan => AppliedRequestSavedAndMarked'

C23_AppliedRequestSavedAndMarked == [][C23_Step]_vars

\* C23 witness: the second command applied the file's request over a
\* customization applied by the first; the project is at version 2 and the
\* file says applied, appliedVersion 2.
C23_Witness ==
    /\ AppliedFromFile
    /\ AppliedRequestSavedAndMarked
    /\ adapting.last.n = 2
    /\ adapting.last.before.version = 1
    /\ adapting.last.before.extra_packages # <<>>
    /\ adapting.stored.version = 2
    /\ adapting.stored.from_image = << "x" >>
    /\ adapting.file.status = "applied"
    /\ adapting.file.appliedVersion = Given(2)

\* ---- C24 ----
\* The last command had no --apply-only, no request flags, no --clear, no
\* --write-only (and no --show-prompt).
PlainInvocation ==
    /\ adapting.last.n > 0
    /\ ~adapting.last.args.apply_only
    /\ adapting.last.args.flags.is = "none"
    /\ ~adapting.last.args.clear
    /\ ~adapting.last.args.write_only
    /\ ~adapting.last.args.show_prompt

SessionThenBuild ==
    PlainInvocation =>
        /\ CallCount("_run_agent_adapt_session") = 1
        /\ CallAt("load_image_request") > 0
               => CallAt("_run_agent_adapt_session") < CallAt("load_image_request")
        /\ adapting.last.changed
               => /\ CallCount("_build_project_image") = 1
                  /\ CallAt("_build_project_image") > CallAt("apply_image_request_to_project")

C24_Step == CommandRan => SessionThenBuild'

\* C24: cmd_adapt invoked for a project without --apply-only, without
\* request flags, --clear or --write-only runs the agent adapt session
\* exactly once before reading the request, and, when the request then
\* changes the project's image configuration, builds the adapted project
\* image exactly once after applying it.
C24_SessionByDefault == [][C24_Step]_vars

(***************************************************************************)
(* SpecRemove: `skua remove <name>` run on one project, local or remote,   *)
(* while its container skua-<name> is started and stopped by other         *)
(* commands: skua/commands/remove.py.                                      *)
(***************************************************************************)

\* The project: on a remote docker host or not, cloned from a repo or not,
\* its environment's persistence mode.
RemovedProjects ==
    [ host : { "", "docker.example.com" }, repo : BOOLEAN, persistence : { "bind", "volume" } ]

\* What the command meets: the remote transport set up or the command
\* ended by it, the answers to its prompts, and whether `docker rm -f` of
\* the container succeeds.
RemoveInputs ==
    [ transport_ok : BOOLEAN, stop_answer : BOOLEAN, cleanup_answer : BOOLEAN,
      rm_container_ok : BOOLEAN ]

\* The state of a remove command: whether the project is in the store, the
\* container runs, the data directory exists; the docker removals issued,
\* the exit status, whether the project resource was deleted.
Removal(exists, running, data_dir, docker, exit, deleted) ==
    [ exists |-> exists, running |-> running, data_dir |-> data_dir,
      docker |-> docker, exit |-> exit, deleted |-> deleted ]

\* _run_docker_remove(["docker", "rm", "-f", container_name]): the container
\* is gone when the command succeeds.
rm_container(s, in) ==
    [ s EXCEPT !.docker = Append(s.docker, "rm -f container"),
               !.running = s.running /\ ~in.rm_container_ok ]

\* store.delete_resource("Project", name)
delete_resource(s) == [ s EXCEPT !.exists = FALSE, !.deleted = TRUE ]

\* The cleanup of a remote project: the container again, the volumes, the
\* image.
remote_cleanup(s, project, in) ==
    IF in.cleanup_answer
    THEN [ rm_container(s, in) EXCEPT
             !.docker = s.docker \o << "rm -f container", "volume rm auth" >>
                        \o (IF project.repo THEN << "volume rm repo" >> ELSE <<>>)
                        \o << "image rm -f" >> ]
    ELSE s

\* The cleanup of a local project: the data directory, or the volume.
local_cleanup(s, project, in) ==
    IF project.persistence = "bind"
    THEN IF s.data_dir /\ in.cleanup_answer THEN [ s EXCEPT !.data_dir = FALSE ] ELSE s
    ELSE IF in.cleanup_answer
         THEN [ s EXCEPT !.docker = Append(s.docker, "volume rm auth") ]
         ELSE s

\* cmd_remove after the running check.
remove_resources(s, project, in) ==
    delete_resource(IF project.host # "" THEN remote_cleanup(s, project, in)
                    ELSE local_cleanup(s, project, in))

\* cmd_remove from is_container_running on.
remove_checked(s, project, in) ==
    IF s.running
    THEN IF project.host # ""
         THEN IF in.stop_answer
              THEN remove_resources(rm_container(s, in), project, in)
              ELSE s
         ELSE [ s EXCEPT !.exit = 1 ]
    ELSE remove_resources(s, project, in)

\* cmd_remove
cmd_remove(s, project, in) ==
    IF ~s.exists THEN [ s EXCEPT !.exit = 1 ]
    ELSE IF project.host # "" /\ ~in.transport_ok THEN [ s EXCEPT !.exit = 1 ]
    ELSE remove_checked(s, project, in)

InitRemove ==
    /\ \E project \in RemovedProjects, running \in BOOLEAN, data_dir \in BOOLEAN :
         removal = [ project |-> project,
                     now     |-> Removal(TRUE, running, data_dir, <<>>, 0, FALSE),
                     last    |-> [ ran |-> FALSE ] ]
    /\ IdleEarlier
    /\ IdleName /\ IdleEncode /\ IdleAdaptCmd /\ IdleTransport

\* One run of the command: what it found, what it met and what it left.
CmdRemove ==
    \E in \in RemoveInputs :
        LET left == cmd_remove(Removal(removal.now.exists, removal.now.running,
                                       removal.now.data_dir, <<>>, 0, FALSE),
                               removal.project, in)
        IN  /\ removal' = [ removal EXCEPT
                              !.now  = left,
                              !.last = [ ran |-> TRUE, found |-> removal.now, in |-> in ] ]
            /\ UNCHANGED notRemove

\* skua run starts the container of a project that is in the store.
ContainerStarts ==
    /\ removal.now.exists
    /\ ~removal.now.running
    /\ removal' = [ removal EXCEPT !.now.running = TRUE, !.last = [ ran |-> FALSE ] ]
    /\ UNCHANGED notRemove

\* skua stop, or the agent exiting.
ContainerStops ==
    /\ removal.now.running
    /\ removal' = [ removal EXCEPT !.now.running = FALSE, !.last = [ ran |-> FALSE ] ]
    /\ UNCHANGED notRemove

NextRemove == CmdRemove \/ ContainerStarts \/ ContainerStops

SpecRemove == InitRemove /\ [][NextRemove]_vars

\* ---- C25 ----
\* The last step was a run of the command on a project it found in the
\* store.
RemoveRan == removal.last.ran /\ removal.last.found.exists

\* The command issued `docker rm -f` for the container.
ForcedRemoval == Contains(removal.now.docker, "rm -f container")

\* C25: cmd_remove never deletes a project's configuration while that
\* project's container is running and was not removed by the command: for a
\* local project with a running container it exits with an error and keeps
\* the project; for a remote project with a running container whose user
\* declines the stop-and-remove prompt it issues no docker removal command
\* and keeps the project; the project resource is deleted only where the
\* container was not running or its forced removal was confirmed.
C25_NoDeleteWhileRunning ==
    RemoveRan =>
        /\ removal.now.deleted => ~removal.now.running
        /\ (removal.last.found.running /\ removal.project.host = "")
               => (removal.now.exit = 1 /\ removal.now.exists)
        /\ (removal.last.found.running /\ removal.project.host # ""
                /\ removal.last.in.transport_ok /\ ~removal.last.in.stop_answer)
               => (removal.now.docker = <<>> /\ removal.now.exists)
        /\ removal.now.deleted
               => \/ ~removal.last.found.running
                  \/ (removal.last.in.stop_answer /\ ForcedRemoval)

(***************************************************************************)
(* SpecTransport: _configure_remote_docker_transport(host) of              *)
(* skua/commands/run.py, step by step: the probes of the docker            *)
(* connection, the prompts on a terminal, the installer, the SSH wrapper.  *)
(***************************************************************************)

RemoteHost == "docker.example.com"
DockerHostUrl == "ssh://docker.example.com"

\* os.environ before the call: DOCKER_HOST unset or left by something else,
\* the SKUA_DOCKER_* variables unset or left by an earlier call.
Unset == "<unset>"

EarlierEnvs ==
    [ DOCKER_HOST : { Unset, "tcp://other:2375" },
      SKUA_DOCKER_TRANSPORT : { Unset, "ssh-wrapper" } ]

Ttys == [ stdin : BOOLEAN, stdout : BOOLEAN ]

\* sys.stdin.isatty() and sys.stdout.isatty(), stdin alone.
interactive_StdinOnly(tty) == tty.stdin

\* sys.stdin.isatty() and sys.stdout.isatty()
interactive(tty) == tty.stdin /\ tty.stdout

\* The transport docker commands would use under the environment env.
in_effect(env) ==
    IF env.SKUA_DOCKER_TRANSPORT = "ssh-wrapper" THEN "ssh-wrapper"
    ELSE IF env.DOCKER_HOST = DockerHostUrl THEN "DOCKER_HOST"
    ELSE "other"

InitTransport ==
    /\ \E env \in EarlierEnvs, tty \in Ttys :
         transport = [ pc |-> "called", env |-> env, tty |-> tty, probes |-> <<>>,
                       typed |-> "", prompts |-> <<>>, installs |-> <<>>, wrappers |-> 0 ]
    /\ IdleEarlier
    /\ IdleName /\ IdleEncode /\ IdleAdaptCmd /\ IdleRemove

\* The SKUA_DOCKER_* variables popped, DOCKER_HOST set.
SetDockerHost ==
    /\ transport.pc = "called"
    /\ transport' = [ transport EXCEPT
                        !.pc  = "probe",
                        !.env = [ DOCKER_HOST |-> DockerHostUrl,
                                  SKUA_DOCKER_TRANSPORT |-> Unset ] ]
    /\ UNCHANGED notTransport

\* _probe_current_docker_connection, recorded with the transport it ran
\* under.
probed(t, ok) == Append(t.probes, [ via |-> in_effect(t.env), ok |-> ok ])

\* The first probe: return when it succeeds; else the prompt on a terminal,
\* the SSH fallback elsewhere.
FirstProbe ==
    /\ transport.pc = "probe"
    /\ \E ok \in BOOLEAN :
         transport' = [ transport EXCEPT
                          !.probes = probed(transport, ok),
                          !.pc = IF ok THEN "returned"
                                 ELSE IF interactive(transport.tty) THEN "prompt"
                                 ELSE "fallback" ]
    /\ UNCHANGED notTransport

\* _prompt_remote_docker_recovery_action: the action for what the user
\* types.
recovery_action(choice) ==
    IF choice \in { "", "1", "i", "install" } THEN "install"
    ELSE IF choice \in { "2", "f", "fallback", "ssh" } THEN "fallback"
    ELSE "cancel"

RecoveryChoices == { "", "1", "install", "2", "ssh", "3", "q" }

\* The prompt after a failed first probe on a terminal.
PromptRecoveryAction ==
    /\ transport.pc = "prompt"
    /\ \E choice \in RecoveryChoices :
         transport' = [ transport EXCEPT
                          !.typed = choice,
                          !.prompts = Append(transport.prompts, recovery_action(choice)),
                          !.pc = IF recovery_action(choice) = "install" THEN "install"
                                 ELSE IF recovery_action(choice) = "fallback" THEN "fallback"
                                 ELSE "exit 1" ]
    /\ UNCHANGED notTransport

\* _run_docker_cli_installer: on success DOCKER_HOST is set again and the
\* connection probed again; on failure the fallback is offered.
RunInstaller ==
    /\ transport.pc = "install"
    /\ \E ok \in BOOLEAN :
         transport' = [ transport EXCEPT
                          !.installs = Append(transport.installs, ok),
                          !.env.DOCKER_HOST = IF ok THEN DockerHostUrl ELSE @,
                          !.pc = IF ok THEN "probe again" ELSE "ask fallback" ]
    /\ UNCHANGED notTransport

\* The probe after a successful install.
ProbeAfterInstall ==
    /\ transport.pc = "probe again"
    /\ \E ok \in BOOLEAN :
         transport' = [ transport EXCEPT
                          !.probes = probed(transport, ok),
                          !.pc = IF ok THEN "returned" ELSE "ask fallback" ]
    /\ UNCHANGED notTransport

\* input("Use SSH fallback transport now? [Y/n]: ")
AskFallback ==
    /\ transport.pc = "ask fallback"
    /\ \E answer \in { "", "y", "n" } :
         transport' = [ transport EXCEPT
                          !.prompts = Append(transport.prompts, "fallback? " \o answer),
                          !.pc = IF answer = "n" THEN "exit 1" ELSE "fallback" ]
    /\ UNCHANGED notTransport

\* _enable_ssh_docker_wrapper: DOCKER_HOST popped, SKUA_DOCKER_TRANSPORT set.
EnableSshDockerWrapper ==
    /\ transport.pc = "fallback"
    /\ transport' = [ transport EXCEPT
                        !.wrappers = @ + 1,
                        !.env = [ DOCKER_HOST |-> Unset,
                                  SKUA_DOCKER_TRANSPORT |-> "ssh-wrapper" ],
                        !.pc = "probe wrapper" ]
    /\ UNCHANGED notTransport

\* The probe under the wrapper: return, or exit with status 1.
ProbeWrapper ==
    /\ transport.pc = "probe wrapper"
    /\ \E ok \in BOOLEAN :
         transport' = [ transport EXCEPT
                          !.probes = probed(transport, ok),
                          !.pc = IF ok THEN "returned" ELSE "exit 1" ]
    /\ UNCHANGED notTransport

NextTransport ==
    \/ SetDockerHost
    \/ FirstProbe
    \/ PromptRecoveryAction
    \/ RunInstaller
    \/ ProbeAfterInstall
    \/ AskFallback
    \/ EnableSshDockerWrapper
    \/ ProbeWrapper

SpecTransport == InitTransport /\ [][NextTransport]_vars

\* ---- C27 ----
LastProbe == transport.probes[Len(transport.probes)]

Cancelled == Contains(transport.prompts, "cancel")
DeclinedFallback == Contains(transport.prompts, "fallback? n")
FallbackProbeFailed ==
    /\ transport.probes # <<>>
    /\ LastProbe.via = "ssh-wrapper"
    /\ ~LastProbe.ok

\* The call is over with a direct connection: the first probe, or the one
\* after a successful install, succeeded.
DirectSucceeded ==
    /\ transport.pc = "returned"
    /\ \E i \in 1..Len(transport.probes) :
         transport.probes[i].via = "DOCKER_HOST" /\ transport.probes[i].ok

\* C27: _configure_remote_docker_transport returns normally only when the
\* most recent probe succeeded under the transport it leaves in effect; if
\* the first probe, or the probe after a successful install, succeeds,
\* DOCKER_HOST is ssh://<host> and the SSH wrapper is never enabled;
\* otherwise the wrapper is enabled exactly once and probed; the function
\* exits with status 1 when the user cancels, declines the fallback, or the
\* fallback probe fails; in a session that is not interactive a failed
\* first probe always leads to the SSH wrapper without any prompt.
C27_TransportConfigured ==
    /\ transport.wrappers <= 1
    /\ transport.pc = "returned" =>
           /\ LastProbe.ok
           /\ LastProbe.via = in_effect(transport.env)
           /\ IF DirectSucceeded
              THEN /\ transport.env.DOCKER_HOST = DockerHostUrl
                   /\ transport.wrappers = 0
                   /\ in_effect(transport.env) = "DOCKER_HOST"
              ELSE /\ transport.wrappers = 1
                   /\ LastProbe.via = "ssh-wrapper"
    /\ transport.pc \in { "returned", "exit 1" } =>
           (transport.pc = "exit 1"
                <=> (Cancelled \/ DeclinedFallback \/ FallbackProbeFailed))
    /\ (/\ ~(transport.tty.stdin /\ transport.tty.stdout)
        /\ transport.probes # <<>>
        /\ ~transport.probes[1].ok)
           => /\ transport.prompts = <<>>
              /\ transport.pc \in { "fallback", "probe wrapper", "returned", "exit 1" }
              /\ transport.pc \in { "probe wrapper", "returned", "exit 1" }
                     => transport.wrappers = 1

\* C27 witness: on a terminal the first probe failed, the install was
\* chosen and succeeded, the second probe failed, the fallback was accepted
\* and the probe under the wrapper succeeded.
C27_Witness ==
    /\ transport.pc = "returned"
    /\ Len(transport.probes) = 3
    /\ transport.installs = << TRUE >>
    /\ transport.wrappers = 1
    /\ transport.env.DOCKER_HOST = Unset
    /\ LastProbe.via = "ssh-wrapper"
    /\ LastProbe.ok

====
